---- MODULE Spec2Model ----
(***************************************************************************)
(* Tile expiry engine of osm2pgsql (expire-tiles.hpp / expire-tiles.cpp):  *)
(* the quadkey codec, the set of dirty tiles of an expire_tiles instance,  *)
(* merge_and_destroy and the zoom pyramid output of output_and_destroy.    *)
(*                                                                         *)
(* A uint64_t is modelled by the set of its set bit positions (a subset of *)
(* 0..63), so that 64-bit shifts, masks and ors are computed bit by bit    *)
(* and quadkeys of zoom 18 and more (36 bits and more) are representable.  *)
(* A uint32_t tile index is a natural number below 2^31.                   *)
(***************************************************************************)
EXTENDS Integers, Sequences, FiniteSets

VARIABLES
    inst,    \* the expire_tiles objects: name -> fields
    writer,  \* the calls of output_dirty_tile received by the TILE_WRITER of the last call, in order
    call,    \* the last call made on an object, with its arguments and its outcome
    nops,    \* number of insertion calls made so far
    pc,      \* position in the merge scenario
    codec    \* arguments and results of the static quadkey functions

vars == <<inst, writer, call, nops, pc, codec>>

----------------------------------------------------------------------------
(* Bounds *)

\* number of insertion calls in one run
MaxOps == 2
\* the codec is run on every tile index of every zoom up to this one
MaxDenseZoom == 3

----------------------------------------------------------------------------
(* 64-bit unsigned integers as sets of bit positions *)

\* 1ULL << n
OneShl(n) == IF n <= 63 THEN {n} ELSE {}

\* a >> n on uint64_t
Shr(a, n) == {k - n : k \in {j \in a : j >= n}}

\* MaskShl computed in 32-bit arithmetic: a bit shifted beyond bit 31 is lost
MaskShl_32bit(x, z, n) ==
    IF z <= 30 /\ (x \div (2 ^ z)) % 2 = 1 /\ z + n <= 31 THEN {z + n} ELSE {}

\* (x & (1ULL << z)) << n for a uint32_t x < 2^31, promoted to uint64_t:
\* bit z of x, moved to bit z + n; a bit shifted beyond bit 63 is lost
MaskShl(x, z, n) ==
    IF z <= 30 /\ (x \div (2 ^ z)) % 2 = 1 /\ z + n <= 63 THEN {z + n} ELSE {}

\* static_cast<uint32_t>((a & (1ULL << b)) >> n), for b >= n: bit b of a, moved
\* to bit b - n; the cast keeps the low 32 bits (results are below 2^31 here)
MaskShr(a, b, n) ==
    IF b \in a /\ b - n <= 30 THEN 2 ^ (b - n) ELSE 0

\* a < b on uint64_t: the highest bit in which they differ is set in b
U64Less(a, b) ==
    LET diff == (a \ b) \cup (b \ a)
    IN diff # {} /\ (CHOOSE k \in diff : \A j \in diff : j <= k) \in b

----------------------------------------------------------------------------
(* Quadkey codec *)

RECURSIVE xy_to_quadkey_loop(_, _, _, _, _)
xy_to_quadkey_loop(x, y, zoom, z, quadkey) ==
    IF z < zoom
    THEN xy_to_quadkey_loop(x, y, zoom, z + 1,
            quadkey \cup MaskShl(x, z, z) \cup MaskShl(y, z, z + 1))
    ELSE quadkey

\* xy_to_quadkey with its loop started at level 1
xy_to_quadkey_from_level_1(x, y, zoom) == xy_to_quadkey_loop(x, y, zoom, 1, {})

xy_to_quadkey(x, y, zoom) == xy_to_quadkey_loop(x, y, zoom, 0, {})

\* quadkey_to_xy_loop with the y bit shifted right by z - 1 instead of z
RECURSIVE quadkey_to_xy_loop_y_shift(_, _, _)
quadkey_to_xy_loop_y_shift(quadkey_coord, z, result) ==
    IF z > 0
    THEN quadkey_to_xy_loop_y_shift(quadkey_coord, z - 1,
            [y |-> result.y + MaskShr(quadkey_coord, 2 * z - 1, z - 1),
             x |-> result.x + MaskShr(quadkey_coord, 2 * (z - 1), z - 1)])
    ELSE result

RECURSIVE quadkey_to_xy_loop(_, _, _)
quadkey_to_xy_loop(quadkey_coord, z, result) ==
    IF z > 0
    THEN quadkey_to_xy_loop(quadkey_coord, z - 1,
            [y |-> result.y + MaskShr(quadkey_coord, 2 * z - 1, z),
             x |-> result.x + MaskShr(quadkey_coord, 2 * (z - 1), z - 1)])
    ELSE result

quadkey_to_xy(quadkey_coord, zoom) ==
    quadkey_to_xy_loop(quadkey_coord, zoom, [x |-> 0, y |-> 0])

----------------------------------------------------------------------------
(* expire_tiles objects *)

\* EARTH_CIRCUMFERENCE / map_width: a double, kept as the exact quotient
tile_width_of(map_width) == [circumference |-> "EARTH_CIRCUMFERENCE", divided_by |-> map_width]

\* constructor expire_tiles(max, bbox, proj), for maxzoom > 0
new_expire_tiles(max) ==
    [maxzoom       |-> max,
     map_width     |-> 2 ^ max,
     tile_width    |-> tile_width_of(2 ^ max),
     last_tile_x   |-> (2 ^ max) + 1,
     last_tile_y   |-> (2 ^ max) + 1,
     m_dirty_tiles |-> {}]

valid_tile_coord(e, coord) == coord <= e.map_width

expire_tile(e, x, y) ==
    IF ~valid_tile_coord(e, x) \/ ~valid_tile_coord(e, y)
    THEN e
    ELSE IF e.last_tile_x # x \/ e.last_tile_y # y
         THEN [e EXCEPT !.m_dirty_tiles = @ \cup {xy_to_quadkey(x, y, e.maxzoom)},
                        !.last_tile_x = x,
                        !.last_tile_y = y]
         ELSE e

RECURSIVE from_bbox_column(_, _, _, _)
from_bbox_column(e, iterator_x, iterator_y, max_y) ==
    IF iterator_y <= max_y
    THEN from_bbox_column(expire_tile(e, iterator_x, iterator_y),
                          iterator_x, iterator_y + 1, max_y)
    ELSE e

RECURSIVE from_bbox_rows(_, _, _, _, _)
from_bbox_rows(e, iterator_x, min_y, max_x, max_y) ==
    IF iterator_x <= max_x
    THEN from_bbox_rows(from_bbox_column(e, iterator_x, min_y, max_y),
                        iterator_x + 1, min_y, max_x, max_y)
    ELSE e

from_bbox_without_buffer(e, min_x, min_y, max_x, max_y) ==
    from_bbox_rows(e, min_x, min_y, max_x, max_y)

\* merge_and_destroy that compares the widths after it has merged the sets
merge_and_destroy_check_late(this, other) ==
    [thrown |-> this.map_width # other.map_width \/ this.tile_width # other.tile_width,
     path   |-> IF Cardinality(this.m_dirty_tiles) = 0 THEN "move" ELSE "insert",
     this   |-> [this EXCEPT !.m_dirty_tiles = @ \cup other.m_dirty_tiles],
     other  |-> [other EXCEPT !.m_dirty_tiles = {}]]

\* merge_and_destroy without the final other.m_dirty_tiles.clear(): only the
\* move leaves other empty
merge_and_destroy_no_clear(this, other) ==
    IF this.map_width # other.map_width \/ this.tile_width # other.tile_width
    THEN [thrown |-> TRUE, path |-> "none", this |-> this, other |-> other]
    ELSE IF Cardinality(this.m_dirty_tiles) = 0
         THEN [thrown |-> FALSE, path |-> "move",
               this  |-> [this EXCEPT !.m_dirty_tiles = other.m_dirty_tiles],
               other |-> [other EXCEPT !.m_dirty_tiles = {}]]
         ELSE [thrown |-> FALSE, path |-> "insert",
               this  |-> [this EXCEPT !.m_dirty_tiles = @ \cup other.m_dirty_tiles],
               other |-> other]

\* merge_and_destroy without the else branch: a set that is not empty takes nothing
merge_and_destroy_move_only(this, other) ==
    IF this.map_width # other.map_width \/ this.tile_width # other.tile_width
    THEN [thrown |-> TRUE, path |-> "none", this |-> this, other |-> other]
    ELSE IF Cardinality(this.m_dirty_tiles) = 0
         THEN [thrown |-> FALSE, path |-> "move",
               this  |-> [this EXCEPT !.m_dirty_tiles = other.m_dirty_tiles],
               other |-> [other EXCEPT !.m_dirty_tiles = {}]]
         ELSE [thrown |-> FALSE, path |-> "insert",
               this  |-> this,
               other |-> [other EXCEPT !.m_dirty_tiles = {}]]

\* merge_and_destroy: the outcome for the pair (this, other)
merge_and_destroy(this, other) ==
    IF this.map_width # other.map_width \/ this.tile_width # other.tile_width
    THEN [thrown |-> TRUE, path |-> "none", this |-> this, other |-> other]
    ELSE IF Cardinality(this.m_dirty_tiles) = 0
         THEN [thrown |-> FALSE, path |-> "move",
               this  |-> [this EXCEPT !.m_dirty_tiles = other.m_dirty_tiles],
               other |-> [other EXCEPT !.m_dirty_tiles = {}]]
         ELSE [thrown |-> FALSE, path |-> "insert",
               this  |-> [this EXCEPT !.m_dirty_tiles = @ \cup other.m_dirty_tiles],
               other |-> [other EXCEPT !.m_dirty_tiles = {}]]

\* SortedFromBit with the comparison reversed (descending order)
RECURSIVE SortedFromBit_descending(_, _)
SortedFromBit_descending(s, k) ==
    IF s = {} THEN << >>
    ELSE IF k < 0 \/ Cardinality(s) = 1 THEN << CHOOSE q \in s : TRUE >>
    ELSE SortedFromBit_descending({q \in s : k \in q}, k - 1) \o
         SortedFromBit_descending({q \in s : k \notin q}, k - 1)

\* the elements of s in ascending order, given that they agree on every bit above k
RECURSIVE SortedFromBit(_, _)
SortedFromBit(s, k) ==
    IF s = {} THEN << >>
    ELSE IF k < 0 \/ Cardinality(s) = 1 THEN << CHOOSE q \in s : TRUE >>
    ELSE SortedFromBit({q \in s : k \notin q}, k - 1) \o
         SortedFromBit({q \in s : k \in q}, k - 1)

\* std::sort of the vector built from the unordered set: ascending, no duplicates
SortedVector(s) ==
    LET used == UNION s
    IN SortedFromBit(s, IF used = {} THEN 0 ELSE CHOOSE k \in used : \A j \in used : j <= k)

\* output_zoom_loop without the comparison with last_quadkey
RECURSIVE output_zoom_loop_no_skip(_, _, _, _, _, _)
output_zoom_loop_no_skip(it, last_quadkey, maxzoom, minzoom, dz, out) ==
    IF dz <= maxzoom - minzoom
    THEN LET qt_current == Shr(it, dz * 2)
             xy == quadkey_to_xy(qt_current, maxzoom - dz)
         IN output_zoom_loop_no_skip(it, last_quadkey, maxzoom, minzoom, dz + 1,
                                     Append(out, [x |-> xy.x, y |-> xy.y, z |-> maxzoom - dz]))
    ELSE out

\* inner loop of output_and_destroy over dz for one quadkey
RECURSIVE output_zoom_loop(_, _, _, _, _, _)
output_zoom_loop(it, last_quadkey, maxzoom, minzoom, dz, out) ==
    IF dz <= maxzoom - minzoom
    THEN LET qt_current == Shr(it, dz * 2)
             xy == quadkey_to_xy(qt_current, maxzoom - dz)
         IN IF qt_current = Shr(last_quadkey, dz * 2)
            THEN output_zoom_loop(it, last_quadkey, maxzoom, minzoom, dz + 1, out)
            ELSE output_zoom_loop(it, last_quadkey, maxzoom, minzoom, dz + 1,
                                  Append(out, [x |-> xy.x, y |-> xy.y, z |-> maxzoom - dz]))
    ELSE out

\* outer loop of output_and_destroy over the sorted vector
RECURSIVE output_tiles_loop(_, _, _, _, _, _)
output_tiles_loop(tiles_maxzoom, i, last_quadkey, maxzoom, minzoom, out) ==
    IF i <= Len(tiles_maxzoom)
    THEN output_tiles_loop(tiles_maxzoom, i + 1, tiles_maxzoom[i], maxzoom, minzoom,
            output_zoom_loop(tiles_maxzoom[i], last_quadkey, maxzoom, minzoom, 0, out))
    ELSE out

\* output_and_destroy with last_quadkey initialised with 0, the quadkey of tile (0, 0)
output_and_destroy_zero_sentinel(e, minzoom) ==
    [written |-> output_tiles_loop(SortedVector(e.m_dirty_tiles), 1,
                                   {}, e.maxzoom, minzoom, << >>),
     this    |-> e]

\* output_and_destroy(output_writer, minzoom): the calls made on the writer, in
\* order, and the object afterwards (the set is read, never modified)
output_and_destroy(e, minzoom) ==
    [written |-> output_tiles_loop(SortedVector(e.m_dirty_tiles), 1,
                                   OneShl(2 * e.maxzoom), e.maxzoom, minzoom, << >>),
     this    |-> e]

----------------------------------------------------------------------------
(* Inputs *)

\* maxzoom arguments of the constructor
Zooms == {1, 2}

\* bounding boxes passed to from_bbox_without_buffer: one tile or a block of
\* 2 x 2 tiles, with its corner on any valid index or on map_width itself
\* (the far corner of a block then is map_width + 1)
BboxArgs(e) ==
    {<<min_x, min_y, min_x + w, min_y + w>> :
        min_x \in 0 .. e.map_width, min_y \in 0 .. e.map_width, w \in {0, 1}}

\* the boxes used where two objects are filled: every single tile, and the
\* blocks whose corner is on the diagonal
PairBboxArgs(e) == {b \in BboxArgs(e) : b[1] = b[3] \/ b[1] = b[2]}

\* sizes: m_dirty_tiles.size() of this and of other when merge_and_destroy is entered
NoCall == [op |-> "none", this |-> "none", other |-> "none",
           thrown |-> FALSE, path |-> "none", sizes |-> <<0, 0>>, minzoom |-> 0]

NoCodec == [stage |-> "idle", x |-> 0, y |-> 0, z |-> 0, d |-> 0,
            quadkey |-> {}, xy |-> [x |-> 0, y |-> 0],
            shifted |-> {}, ancestor |-> {}]

----------------------------------------------------------------------------
(* One object that is filled and written, in any order *)

Init ==
    /\ inst \in [{"et"} -> {new_expire_tiles(max) : max \in Zooms}]
    /\ writer = [w \in {"set"} |-> << >>]
    /\ call = NoCall
    /\ nops = 0
    /\ pc = "run"
    /\ codec = NoCodec

FromBboxWithoutBuffer(i, min_x, min_y, max_x, max_y) ==
    /\ pc = "run"
    /\ nops < MaxOps
    /\ inst' = [inst EXCEPT ![i] = from_bbox_without_buffer(@, min_x, min_y, max_x, max_y)]
    /\ call' = [NoCall EXCEPT !.op = "from_bbox_without_buffer", !.this = i]
    /\ nops' = nops + 1
    /\ writer' = [w \in DOMAIN writer |-> << >>]
    /\ UNCHANGED <<pc, codec>>

\* output_and_destroy(set, minzoom) with a new, empty writer
OutputAndDestroy(i, minzoom) ==
    /\ pc = "run"
    /\ minzoom <= inst[i].maxzoom
    /\ LET r == output_and_destroy(inst[i], minzoom)
       IN /\ inst' = [inst EXCEPT ![i] = r.this]
          /\ writer' = [writer EXCEPT !["set"] = r.written]
    /\ call' = [NoCall EXCEPT !.op = "output_and_destroy", !.this = i, !.minzoom = minzoom]
    /\ UNCHANGED <<nops, pc, codec>>

Next ==
    \/ \E b \in BboxArgs(inst["et"]) : FromBboxWithoutBuffer("et", b[1], b[2], b[3], b[4])
    \/ \E minzoom \in 0 .. inst["et"].maxzoom : OutputAndDestroy("et", minzoom)

Spec == Init /\ [][Next]_vars

----------------------------------------------------------------------------
(* Two objects that are filled and merged into each other, in any order *)

InitPair ==
    /\ inst \in [{"et1", "et2"} -> {new_expire_tiles(max) : max \in Zooms}]
    /\ writer = [w \in {"set"} |-> << >>]
    /\ call = NoCall
    /\ nops = 0
    /\ pc = "run"
    /\ codec = NoCodec

\* this.merge_and_destroy(other); the exception, if any, is caught by the caller
MergeAndDestroy(this, other) ==
    /\ pc = "run"
    /\ this # other
    /\ LET r == merge_and_destroy(inst[this], inst[other])
       IN /\ inst' = [inst EXCEPT ![this] = r.this, ![other] = r.other]
          /\ call' = [NoCall EXCEPT !.op = "merge_and_destroy", !.this = this, !.other = other,
                                    !.thrown = r.thrown, !.path = r.path,
                                    !.sizes = <<Cardinality(inst[this].m_dirty_tiles),
                                                Cardinality(inst[other].m_dirty_tiles)>>]
    /\ UNCHANGED <<writer, nops, pc, codec>>

NextPair ==
    \/ \E i \in {"et1", "et2"} : \E b \in PairBboxArgs(inst[i]) :
          FromBboxWithoutBuffer(i, b[1], b[2], b[3], b[4])
    \/ \E this, other \in {"et1", "et2"} : MergeAndDestroy(this, other)

SpecPair == InitPair /\ [][NextPair]_vars

----------------------------------------------------------------------------
(* The merge scenario of test_expire_merge and test_expire_merge_complete:  *)
(* a first sequence of insertions on et1, a second one on et2, both merged  *)
(* into a new object et, and the same insertions made on one object et0.    *)

InitMerge ==
    /\ inst \in {[i \in {"et", "et0", "et1", "et2"} |-> new_expire_tiles(max)] : max \in Zooms}
    /\ writer = [w \in {"set", "set0"} |-> << >>]
    /\ call = NoCall
    /\ nops = 0
    /\ pc = "et1"
    /\ codec = NoCodec

\* one insertion of the sequence of pc, on its object and on et0
Insert(min_x, min_y, max_x, max_y) ==
    /\ pc \in {"et1", "et2"}
    /\ nops < MaxOps
    /\ inst' = [inst EXCEPT
                  ![pc] = from_bbox_without_buffer(@, min_x, min_y, max_x, max_y),
                  !["et0"] = from_bbox_without_buffer(@, min_x, min_y, max_x, max_y)]
    /\ call' = [NoCall EXCEPT !.op = "from_bbox_without_buffer", !.this = pc]
    /\ nops' = nops + 1
    /\ UNCHANGED <<writer, pc, codec>>

\* the first sequence ends
NextSequence ==
    /\ pc = "et1"
    /\ pc' = "et2"
    /\ call' = NoCall
    /\ UNCHANGED <<inst, writer, nops, codec>>

\* et.merge_and_destroy(et1), then et.merge_and_destroy(et2); an exception ends the run
Merge ==
    /\ pc \in {"et2", "merged1"}
    /\ LET other == IF pc = "et2" THEN "et1" ELSE "et2"
           r == merge_and_destroy(inst["et"], inst[other])
       IN /\ inst' = [inst EXCEPT !["et"] = r.this, ![other] = r.other]
          /\ call' = [NoCall EXCEPT !.op = "merge_and_destroy", !.this = "et", !.other = other,
                                    !.thrown = r.thrown, !.path = r.path,
                                    !.sizes = <<Cardinality(inst["et"].m_dirty_tiles),
                                                Cardinality(inst[other].m_dirty_tiles)>>]
          /\ pc' = IF r.thrown THEN "failed" ELSE IF pc = "et2" THEN "merged1" ELSE "merged2"
    /\ UNCHANGED <<writer, nops, codec>>

\* et.output_and_destroy(set, minzoom) and et0.output_and_destroy(set0, minzoom)
Output(minzoom) ==
    /\ pc = "merged2"
    /\ minzoom <= inst["et"].maxzoom
    /\ LET r == output_and_destroy(inst["et"], minzoom)
           r0 == output_and_destroy(inst["et0"], minzoom)
       IN /\ inst' = [inst EXCEPT !["et"] = r.this, !["et0"] = r0.this]
          /\ writer' = [set |-> r.written, set0 |-> r0.written]
    /\ call' = [NoCall EXCEPT !.op = "output_and_destroy", !.this = "et", !.minzoom = minzoom]
    /\ pc' = "done"
    /\ UNCHANGED <<nops, codec>>

NextMerge ==
    \/ \E b \in PairBboxArgs(inst["et0"]) : Insert(b[1], b[2], b[3], b[4])
    \/ NextSequence
    \/ Merge
    \/ \E minzoom \in 0 .. inst["et"].maxzoom : Output(minzoom)

SpecMerge == InitMerge /\ [][NextMerge]_vars

----------------------------------------------------------------------------
(* The static functions xy_to_quadkey and quadkey_to_xy on their own *)

\* x >> d on uint32_t, for x < 2^31
ShrU32(x, d) == IF d >= 31 THEN 0 ELSE x \div (2 ^ d)

\* 2^z - 1, the largest tile index of zoom z (z <= 31)
MaxIndex(z) == IF z = 0 THEN 0 ELSE (2 ^ (z - 1) - 1) + 2 ^ (z - 1)

\* x < 2^z, for x < 2^31
InRange(x, z) == x <= MaxIndex(z)

\* zoom levels of the unit tests, and the largest zoom that fits 64 bits with uint32_t indexes
SparseZooms == {16, 18, 31}

\* tile indexes tried at the zoom levels of SparseZooms: the values of the unit
\* tests, the ends of the range, alternating bit patterns
SparseIndexes(z) ==
    {x \in {0, 1, 3, 5, 43690, 65535, 131068, 131072, 174762, 262143,
            MaxIndex(z) - 1, MaxIndex(z)} : InRange(x, z)}

\* (x, y, zoom) arguments with the number of levels d to go up; at the dense
\* zoom levels the index 2^z, which is no tile of zoom z, is tried as well
CodecArgs ==
    {[x |-> x, y |-> y, z |-> z, d |-> d] :
        x \in 0 .. 2 ^ MaxDenseZoom, y \in 0 .. 2 ^ MaxDenseZoom,
        z \in 0 .. MaxDenseZoom, d \in 0 .. MaxDenseZoom}
    \cup
    {[x |-> x, y |-> y, z |-> z, d |-> d] :
        x \in SparseIndexes(31), y \in SparseIndexes(31),
        z \in SparseZooms, d \in {0, 1, 2, 15, 16, 17, 18, 30, 31}}

InitCodec ==
    /\ inst = [i \in {"et"} |-> new_expire_tiles(1)]
    /\ writer = [w \in {"set"} |-> << >>]
    /\ call = NoCall
    /\ nops = 0
    /\ pc = "codec"
    /\ \E a \in CodecArgs :
          /\ a.d <= a.z
          /\ IF a.z \in SparseZooms
             THEN InRange(a.x, a.z) /\ InRange(a.y, a.z)
             ELSE a.x <= 2 ^ a.z /\ a.y <= 2 ^ a.z
          /\ codec = [NoCodec EXCEPT !.stage = "args", !.x = a.x, !.y = a.y, !.z = a.z, !.d = a.d]

\* quadkey = xy_to_quadkey(x, y, z)
Encode ==
    /\ codec.stage = "args"
    /\ codec' = [codec EXCEPT !.stage = "encoded",
                              !.quadkey = xy_to_quadkey(codec.x, codec.y, codec.z)]
    /\ UNCHANGED <<inst, writer, call, nops, pc>>

\* xy = quadkey_to_xy(quadkey, z)
Decode ==
    /\ codec.stage = "encoded"
    /\ codec' = [codec EXCEPT !.stage = "decoded",
                              !.xy = quadkey_to_xy(codec.quadkey, codec.z)]
    /\ UNCHANGED <<inst, writer, call, nops, pc>>

\* the quadkey scaled down by d levels as output_and_destroy does it, quadkey >> (d * 2),
\* and the quadkey of the tile that contains (x, y) at zoom z - d
ScaleDown ==
    /\ codec.stage = "decoded"
    /\ codec' = [codec EXCEPT !.stage = "scaled",
                              !.shifted = Shr(codec.quadkey, codec.d * 2),
                              !.ancestor = xy_to_quadkey(ShrU32(codec.x, codec.d),
                                                         ShrU32(codec.y, codec.d),
                                                         codec.z - codec.d)]
    /\ UNCHANGED <<inst, writer, call, nops, pc>>

NextCodec == Encode \/ Decode \/ ScaleDown

SpecCodec == InitCodec /\ [][NextCodec]_vars

----------------------------------------------------------------------------
(* Tile coordinates of type double.  A double is modelled by the rational   *)
(* number it stands for, a pair <<numerator, denominator>> in lowest terms   *)
(* with a positive denominator; the arithmetic is exact.                     *)

RECURSIVE GCD(_, _)
GCD(a, b) == IF b = 0 THEN a ELSE GCD(b, a % b)

Abs(n) == IF n < 0 THEN -n ELSE n

\* the double n / d, d # 0
Dbl(n, d) ==
    LET g == GCD(Abs(n), Abs(d))
    IN IF d > 0 THEN <<n \div g, d \div g>> ELSE <<(-n) \div g, (-d) \div g>>

DInt(k) == <<k, 1>>
DAdd(a, b) ==
    LET g == GCD(a[2], b[2])
    IN Dbl(a[1] * (b[2] \div g) + b[1] * (a[2] \div g), a[2] * (b[2] \div g))
DNeg(a) == <<-a[1], a[2]>>
DSub(a, b) == DAdd(a, DNeg(b))
DMul(a, b) ==
    LET g == GCD(Abs(a[1]), b[2])
        h == GCD(Abs(b[1]), a[2])
    IN Dbl((a[1] \div g) * (b[1] \div h), (a[2] \div h) * (b[2] \div g))
DDiv(a, b) == DMul(a, IF b[1] < 0 THEN <<-b[2], -b[1]>> ELSE <<b[2], b[1]>>)
DLess(a, b) ==
    LET g == GCD(a[2], b[2])
    IN a[1] * (b[2] \div g) < b[1] * (a[2] \div g)
DLessEq(a, b) == ~DLess(b, a)
DMin(a, b) == IF DLess(b, a) THEN b ELSE a
DMax(a, b) == IF DLess(a, b) THEN b ELSE a

\* static_cast<uint32_t>(a): truncation towards zero.  The conversion of a
\* double of -1 or less is undefined; it is marked by the value -1 here and
\* the calls that would evaluate it are not made by the specifications below.
Undefined == -1
CastU32(a) ==
    IF a[1] >= 0 THEN a[1] \div a[2]
    ELSE IF -a[1] < a[2] THEN 0
    ELSE Undefined

TILE_EXPIRY_LEEWAY == <<1, 10>>

----------------------------------------------------------------------------
(* The rasterizer of expire_tiles: boxes, vertical lines and lines *)

from_bbox(e, min_x, min_y, max_x, max_y) ==
    from_bbox_without_buffer(e,
        CastU32(DSub(min_x, TILE_EXPIRY_LEEWAY)), CastU32(DSub(min_y, TILE_EXPIRY_LEEWAY)),
        CastU32(DAdd(max_x, TILE_EXPIRY_LEEWAY)), CastU32(DAdd(max_y, TILE_EXPIRY_LEEWAY)))

\* the loop of expire_vertical_line between the two ends
RECURSIVE expire_vertical_line_loop(_, _, _, _)
expire_vertical_line_loop(e, x, y, y2) ==
    IF y < CastU32(y2)
    THEN expire_vertical_line_loop(expire_tile(e, CastU32(x), y), x, y + 1, y2)
    ELSE e

expire_vertical_line(e, x, y1, y2) ==
    LET south == from_bbox(e, x, y1, x, y1)
        between == expire_vertical_line_loop(south, x, CastU32(DAdd(y1, DInt(1))), y2)
    IN from_bbox(between, x, y2, x, y2)

\* the arguments of the calls of expire_tile made by the first loop of expire_line
RECURSIVE expire_line_x_loop(_, _, _, _)
expire_line_x_loop(x, x2, incline, y_intercept) ==
    IF x <= CastU32(x2)
    THEN <<<<x, CastU32(DAdd(DMul(incline, DInt(x)), y_intercept))>>>>
         \o expire_line_x_loop(x + 1, x2, incline, y_intercept)
    ELSE << >>

\* the second loop of expire_line marking the row below the crossing for
\* lines of both directions
RECURSIVE expire_line_y_loop_row_below(_, _, _, _, _)
expire_line_y_loop_row_below(y, max_y, southward, incline, y_intercept) ==
    IF y <= CastU32(max_y)
    THEN LET x == DDiv(DSub(DInt(y), y_intercept), incline)
         IN <<<<CastU32(x), y>>>>
            \o expire_line_y_loop_row_below(y + 1, max_y, southward, incline, y_intercept)
    ELSE << >>

\* the arguments of the calls of expire_tile made by the second loop of expire_line
RECURSIVE expire_line_y_loop(_, _, _, _, _)
expire_line_y_loop(y, max_y, southward, incline, y_intercept) ==
    IF y <= CastU32(max_y)
    THEN LET x == DDiv(DSub(DInt(y), y_intercept), incline)
         IN <<IF southward THEN <<CastU32(x), y>> ELSE <<CastU32(x), y - 1>>>>
            \o expire_line_y_loop(y + 1, max_y, southward, incline, y_intercept)
    ELSE << >>

\* the arguments of all calls of expire_tile made by expire_line, in order
expire_line_calls(map_width, x1, y1, x2, y2) ==
    LET incline == DDiv(DSub(y2, y1), DSub(x2, x1))
        y_intercept == DSub(y2, DMul(incline, x2))
    IN IF incline = DInt(0) /\ (DLess(y_intercept, DInt(0)) \/ DLess(DInt(map_width), y_intercept))
       THEN << >>
       ELSE IF DLessEq(x2, DInt(0))
       THEN << >>
       ELSE LET west == DLess(x1, DInt(0))
                x1a == IF west THEN DInt(0) ELSE x1
                y1a == IF west THEN y_intercept ELSE y1
                north1 == DLess(y1a, DInt(0))
                y1b == IF north1 THEN DInt(0) ELSE y1a
                x1b == IF north1 THEN DDiv(DNeg(y_intercept), incline) ELSE x1a
                north2 == DLess(y2, DInt(0))
                y2b == IF north2 THEN DInt(0) ELSE y2
                x2b == IF north2 THEN DDiv(DNeg(y_intercept), incline) ELSE x2
            IN <<<<CastU32(x1b), CastU32(y1b)>>>>
               \o expire_line_x_loop(CastU32(DAdd(x1b, DInt(1))), x2b, incline, y_intercept)
               \o expire_line_y_loop(CastU32(DAdd(DMin(y1b, y2b), DInt(1))), DMax(y1b, y2b),
                                     DLess(y1b, y2b), incline, y_intercept)

\* the calls of expire_tile, made one after the other
RECURSIVE expire_tile_calls(_, _, _)
expire_tile_calls(e, calls, i) ==
    IF i <= Len(calls)
    THEN expire_tile_calls(expire_tile(e, calls[i][1], calls[i][2]), calls, i + 1)
    ELSE e

expire_line(e, x1, y1, x2, y2) ==
    expire_tile_calls(e, expire_line_calls(e.map_width, x1, y1, x2, y2), 1)

----------------------------------------------------------------------------
(* Line segments with their buffer, and the split at the antimeridian *)

\* static_cast<int>(a): truncation towards zero
CastInt(a) == IF a[1] >= 0 THEN a[1] \div a[2] ELSE -((-a[1]) \div a[2])

\* a < 1 / n for a positive integer n, without a product that exceeds 32 bits
BelowReciprocal(a, n) == a[1] <= 0 \/ n <= (a[2] - 1) \div a[1]

\* the integer square root of n >= 0 between lo and hi
RECURSIVE ISqrt(_, _, _)
ISqrt(n, lo, hi) ==
    IF lo >= hi THEN lo
    ELSE LET mid == (lo + hi + 1) \div 2
         IN IF mid * mid <= n THEN ISqrt(n, mid, hi) ELSE ISqrt(n, lo, mid - 1)

\* a double has an exact square root here when the numerator and the
\* denominator of its fraction are squares
HasSqrt(a) ==
    /\ a[1] >= 0
    /\ ISqrt(a[1], 0, 4096) * ISqrt(a[1], 0, 4096) = a[1]
    /\ ISqrt(a[2], 0, 4096) * ISqrt(a[2], 0, 4096) = a[2]

\* sqrt(a), for a double that has an exact square root
DSqrt(a) == <<ISqrt(a[1], 0, 4096), ISqrt(a[2], 0, 4096)>>

normalise_tile_coord(e, coord) ==
    IF DLess(DInt(e.map_width), coord) THEN DInt(2 * (2 ^ e.maxzoom) - 1)
    ELSE IF DLess(coord, DInt(0)) THEN DInt(0)
    ELSE coord

\* the nearly vertical case of expire_line_segment
expire_line_segment_vertical(e, x1, y1, y2) ==
    LET south == DMin(y1, y2)
        north == DMax(y1, y2)
        x_buffer_west == normalise_tile_coord(e, DSub(x1, TILE_EXPIRY_LEEWAY))
        x_buffer_east == normalise_tile_coord(e, DAdd(x1, TILE_EXPIRY_LEEWAY))
        west == expire_vertical_line(e, x_buffer_west, south, north)
    IN IF CastU32(x_buffer_west) # CastU32(x_buffer_east)
       THEN expire_vertical_line(west, x_buffer_east, south, north)
       ELSE west

\* the test for the nearly vertical case
expire_line_segment_is_vertical(x1, x2) ==
    /\ DLess(DSub(x2, x1), DInt(1))
    /\ \/ CastInt(x2) = CastInt(x1)
       \/ BelowReciprocal(DSub(x2, x1), 100000000)

\* the arguments of the two calls of expire_line made by expire_line_segment:
\* the left and the right parallel
expire_line_segment_parallels(x1, y1, x2, y2) ==
    LET segment_length == DSqrt(DAdd(DMul(DSub(y2, y1), DSub(y2, y1)),
                                     DMul(DSub(x2, x1), DSub(x2, x1))))
        x_norm == DDiv(DSub(x2, x1), segment_length)
        y_norm == DDiv(DSub(y2, y1), segment_length)
        x_buffer == DMul(<<1, 10>>, x_norm)
        y_buffer == DMul(<<1, 10>>, y_norm)
    IN << <<DSub(DSub(x1, x_buffer), y_buffer), DAdd(DSub(y1, y_buffer), x_buffer),
            DSub(DAdd(x2, x_buffer), y_buffer), DAdd(DAdd(y2, y_buffer), x_buffer)>>,
          <<DAdd(DSub(x1, x_buffer), y_buffer), DSub(DSub(y1, y_buffer), x_buffer),
            DAdd(DAdd(x2, x_buffer), y_buffer), DSub(DAdd(y2, y_buffer), x_buffer)>> >>

expire_line_segment(e, x1, y1, x2, y2) ==
    IF x1 = x2 /\ y1 = y2
    THEN e
    ELSE IF expire_line_segment_is_vertical(x1, x2)
    THEN expire_line_segment_vertical(e, x1, y1, y2)
    ELSE LET p == expire_line_segment_parallels(x1, y1, x2, y2)
             left == expire_line(e, p[1][1], p[1][2], p[1][3], p[1][4])
         IN expire_line(left, p[2][1], p[2][2], p[2][3], p[2][4])

\* the asserts of expire_line_segment and of the functions it calls with the
\* arguments it hands to them: TRUE when none of them fails
expire_line_segment_asserts(map_width, x1, y1, x2, y2) ==
    /\ DLessEq(x1, x2)
    /\ DLessEq(DSub(x2, x1), DInt(map_width \div 2))
    /\ \/ x1 = x2 /\ y1 = y2
       \/ IF expire_line_segment_is_vertical(x1, x2)
          THEN DLess(DMin(y1, y2), DMax(y1, y2))
          ELSE \A k \in {1, 2} :
                  LET p == expire_line_segment_parallels(x1, y1, x2, y2)[k]
                  IN DLess(p[1], p[3])

\* projection->coords_to_tile(&x, &y, lon, lat, map_width): x grows eastward
\* and y grows southward; lon and lat are measured in tile widths from the
\* south-west corner of the map here
coords_to_tile(lon, lat, map_width) == <<lon, DSub(DInt(map_width), lat)>>

\* from_line_lon_lat that does not swap the ends of the segment
from_line_lon_lat_segments_no_swap(map_width, lon_a, lat_a, lon_b, lat_b) ==
    LET a == coords_to_tile(lon_a, lat_a, map_width)
        b == coords_to_tile(lon_b, lat_b, map_width)
    IN IF DLess(DInt(map_width \div 2), DSub(b[1], a[1]))
       THEN IF b[1] = DInt(map_width) /\ a[1] = DInt(0)
            THEN << <<DInt(0), a[2], DInt(0), b[2]>> >>
            ELSE LET x_distance == DSub(DAdd(DInt(map_width), a[1]), b[1])
                     y_split == DAdd(a[2], DMul(DSub(b[2], a[2]), DDiv(a[1], x_distance)))
                 IN << <<DInt(0), y_split, a[1], a[2]>>,
                       <<b[1], b[2], DInt(map_width), y_split>> >>
       ELSE << <<a[1], a[2], b[1], b[2]>> >>

\* the arguments of the calls of expire_line_segment made by from_line_lon_lat
from_line_lon_lat_segments(map_width, lon_a, lat_a, lon_b, lat_b) ==
    LET p == coords_to_tile(lon_a, lat_a, map_width)
        q == coords_to_tile(lon_b, lat_b, map_width)
        swap == DLess(q[1], p[1])
        a == IF swap THEN q ELSE p
        b == IF swap THEN p ELSE q
    IN IF DLess(DInt(map_width \div 2), DSub(b[1], a[1]))
       THEN IF b[1] = DInt(map_width) /\ a[1] = DInt(0)
            THEN << <<DInt(0), a[2], DInt(0), b[2]>> >>
            ELSE LET x_distance == DSub(DAdd(DInt(map_width), a[1]), b[1])
                     y_split == DAdd(a[2], DMul(DSub(b[2], a[2]), DDiv(a[1], x_distance)))
                 IN << <<DInt(0), y_split, a[1], a[2]>>,
                       <<b[1], b[2], DInt(map_width), y_split>> >>
       ELSE << <<a[1], a[2], b[1], b[2]>> >>

RECURSIVE expire_line_segment_calls(_, _, _)
expire_line_segment_calls(e, segments, i) ==
    IF i <= Len(segments)
    THEN expire_line_segment_calls(
             expire_line_segment(e, segments[i][1], segments[i][2], segments[i][3], segments[i][4]),
             segments, i + 1)
    ELSE e

from_line_lon_lat(e, lon_a, lat_a, lon_b, lat_b) ==
    expire_line_segment_calls(e, from_line_lon_lat_segments(e.map_width, lon_a, lat_a, lon_b, lat_b), 1)

----------------------------------------------------------------------------
(* intersecting_tiles_t: the bounds of the tile columns of a polygon *)

\* std::numeric_limits<uint32_t>::max(), the mark of an invalidated entry;
\* TLC integers have 32 bits with a sign, so the mark is the largest of them:
\* like the original it is above every tile index and sorts last
UINT32_MAX == 2147483647

\* constructor intersecting_tiles_t(x_min, x_max, map_width, leeway); thrown
\* records the std::out_of_range of a call of at(), which ends the loops over
\* the columns, the points and the rings
new_intersecting_tiles(x_min, x_max, map_width) ==
    LET columns == CastU32(DAdd(x_max, TILE_EXPIRY_LEEWAY))
                   - CastU32(DSub(x_min, TILE_EXPIRY_LEEWAY)) + 1
    IN [offset_x     |-> CastU32(DSub(x_min, TILE_EXPIRY_LEEWAY)),
        max_tile_id  |-> map_width,
        min_bounds   |-> [c \in 1 .. columns |-> << >>],
        max_bounds   |-> [c \in 1 .. columns |-> << >>],
        current_x    |-> 0,
        next_idx_min |-> 0,
        next_idx_max |-> 0,
        thrown       |-> FALSE]

get_x_index(t, x) == x - t.offset_x

\* vectors are indexed from 0 in the code and from 1 here
add_minimum(t, x, min) ==
    IF t.thrown THEN t
    ELSE IF get_x_index(t, x) + 1 \in 1 .. Len(t.min_bounds)
    THEN [t EXCEPT !.min_bounds[get_x_index(t, x) + 1] =
                       Append(@, CastU32(DSub(min, TILE_EXPIRY_LEEWAY)))]
    ELSE [t EXCEPT !.thrown = TRUE]

\* add_maximum that stores the row after the one of max + leeway
add_maximum_next_row(t, x, max) ==
    IF t.thrown THEN t
    ELSE IF get_x_index(t, x) + 1 \in 1 .. Len(t.max_bounds)
    THEN [t EXCEPT !.max_bounds[get_x_index(t, x) + 1] =
                       Append(@, CastU32(DAdd(max, TILE_EXPIRY_LEEWAY)) + 1)]
    ELSE [t EXCEPT !.thrown = TRUE]

add_maximum(t, x, max) ==
    IF t.thrown THEN t
    ELSE IF get_x_index(t, x) + 1 \in 1 .. Len(t.max_bounds)
    THEN [t EXCEPT !.max_bounds[get_x_index(t, x) + 1] =
                       Append(@, CastU32(DAdd(max, TILE_EXPIRY_LEEWAY)))]
    ELSE [t EXCEPT !.thrown = TRUE]

add_minimum_or_maximum(t, x, y1, y2, interior_above) ==
    IF interior_above
    THEN add_maximum(t, x, DMax(y1, y2))
    ELSE add_minimum(t, x, DMin(y1, y2))

\* atan2(y1 - y2, x2 - x1) lies strictly between -PI / 2 and PI / 2 when
\* x2 - x1 > 0, and atan2(0, 0) is 0
interior_side_above(x1, y1, x2, y2) ==
    DLess(x1, x2) \/ (x1 = x2 /\ y1 = y2)

RECURSIVE evaluate_segment_loop(_, _, _, _, _, _, _)
evaluate_segment_loop(t, x, start, end, y1, y2, interior_above) ==
    IF ~t.thrown /\ x <= end
    THEN LET once == add_minimum_or_maximum(t, x, y1, y2, interior_above)
             twice == IF x # start /\ x # end
                      THEN add_minimum_or_maximum(once, x, y1, y2, interior_above)
                      ELSE once
         IN evaluate_segment_loop(twice, x + 1, start, end, y1, y2, interior_above)
    ELSE t

\* evaluate_segment that takes the interior to be on the other side of a
\* segment of an inner ring
evaluate_segment_inner_ring_below(t, x1, y1, x2, y2, outer_ring) ==
    IF CastU32(DSub(DMin(x1, x2), TILE_EXPIRY_LEEWAY))
       = CastU32(DAdd(DMax(x1, x2), TILE_EXPIRY_LEEWAY))
    THEN add_maximum(add_minimum(t, CastU32(x1), DMin(y1, y2)), CastU32(x1), DMax(y1, y2))
    ELSE LET interior_above == IF outer_ring THEN interior_side_above(x1, y1, x2, y2)
                               ELSE ~interior_side_above(x1, y1, x2, y2)
             swap == DLess(x2, x1)
             xa == IF swap THEN x2 ELSE x1
             ya == IF swap THEN y2 ELSE y1
             xb == IF swap THEN x1 ELSE x2
             yb == IF swap THEN y1 ELSE y2
         IN evaluate_segment_loop(t, CastU32(DSub(xa, TILE_EXPIRY_LEEWAY)),
                                  CastU32(DSub(xa, TILE_EXPIRY_LEEWAY)),
                                  CastU32(DAdd(xb, TILE_EXPIRY_LEEWAY)),
                                  ya, yb, interior_above)

evaluate_segment(t, x1, y1, x2, y2, outer_ring) ==
    IF CastU32(DSub(DMin(x1, x2), TILE_EXPIRY_LEEWAY))
       = CastU32(DAdd(DMax(x1, x2), TILE_EXPIRY_LEEWAY))
    THEN add_maximum(add_minimum(t, CastU32(x1), DMin(y1, y2)), CastU32(x1), DMax(y1, y2))
    ELSE LET interior_above == interior_side_above(x1, y1, x2, y2)
             swap == DLess(x2, x1)
             xa == IF swap THEN x2 ELSE x1
             ya == IF swap THEN y2 ELSE y1
             xb == IF swap THEN x1 ELSE x2
             yb == IF swap THEN y1 ELSE y2
         IN evaluate_segment_loop(t, CastU32(DSub(xa, TILE_EXPIRY_LEEWAY)),
                                  CastU32(DSub(xa, TILE_EXPIRY_LEEWAY)),
                                  CastU32(DAdd(xb, TILE_EXPIRY_LEEWAY)),
                                  ya, yb, interior_above)

\* std::sort of a vector of uint32_t
RECURSIVE SortedInsert(_, _)
SortedInsert(sorted, v) ==
    IF sorted = << >> THEN <<v>>
    ELSE IF v <= Head(sorted) THEN <<v>> \o sorted
    ELSE <<Head(sorted)>> \o SortedInsert(Tail(sorted), v)

RECURSIVE SortedCrossings(_)
SortedCrossings(crossings) ==
    IF crossings = << >> THEN << >>
    ELSE SortedInsert(SortedCrossings(Tail(crossings)), Head(crossings))

Min2(a, b) == IF a < b THEN a ELSE b
Max2(a, b) == IF a < b THEN b ELSE a

\* the loop of sort_bounds with < in place of <=: an interval that starts in
\* the row where the one before it ends is not joined to it
RECURSIVE sort_bounds_overlaps_strict(_, _, _)
sort_bounds_overlaps_strict(mins, maxs, entry) ==
    IF entry < Min2(Len(mins), Len(maxs))
    THEN IF mins[entry + 1] < maxs[entry]
         THEN sort_bounds_overlaps_strict(
                  [mins EXCEPT ![entry + 1] = Min2(mins[entry + 1], mins[entry]),
                               ![entry] = UINT32_MAX],
                  [maxs EXCEPT ![entry + 1] = Max2(maxs[entry + 1], maxs[entry]),
                               ![entry] = UINT32_MAX],
                  entry + 1)
         ELSE sort_bounds_overlaps_strict(mins, maxs, entry + 1)
    ELSE <<mins, maxs>>

\* the loop of sort_bounds over the entries of one column, entry counted from 1
\* here: overlapping intervals are joined and the earlier one is invalidated
RECURSIVE sort_bounds_overlaps(_, _, _)
sort_bounds_overlaps(mins, maxs, entry) ==
    IF entry < Min2(Len(mins), Len(maxs))
    THEN IF mins[entry + 1] <= maxs[entry]
         THEN sort_bounds_overlaps(
                  [mins EXCEPT ![entry + 1] = Min2(mins[entry + 1], mins[entry]),
                               ![entry] = UINT32_MAX],
                  [maxs EXCEPT ![entry + 1] = Max2(maxs[entry + 1], maxs[entry]),
                               ![entry] = UINT32_MAX],
                  entry + 1)
         ELSE sort_bounds_overlaps(mins, maxs, entry + 1)
    ELSE <<mins, maxs>>

sort_bounds(t) ==
    LET joined == [c \in 1 .. Min2(Len(t.min_bounds), Len(t.max_bounds)) |->
                      sort_bounds_overlaps(SortedCrossings(t.min_bounds[c]),
                                           SortedCrossings(t.max_bounds[c]), 1)]
    IN [t EXCEPT !.min_bounds = [c \in 1 .. Len(t.min_bounds) |-> SortedCrossings(joined[c][1])],
                 !.max_bounds = [c \in 1 .. Len(t.max_bounds) |-> SortedCrossings(joined[c][2])]]

is_valid_bounds_entry(t, value) == value < t.max_tile_id

column_has_intervals(t) ==
    /\ t.next_idx_min < Len(t.min_bounds[t.current_x + 1])
    /\ t.next_idx_max < Len(t.max_bounds[t.current_x + 1])

get_next_minimum(t) ==
    [minimum |-> t.min_bounds[t.current_x + 1][t.next_idx_min + 1],
     tiles   |-> [t EXCEPT !.next_idx_min = @ + 1]]

get_next_maximum(t) ==
    [maximum |-> t.max_bounds[t.current_x + 1][t.next_idx_max + 1],
     tiles   |-> [t EXCEPT !.next_idx_max = @ + 1]]

\* get_next_pair that moves both cursors before it looks for the end of the column
get_next_pair_moves_first(t) ==
    LET moved == [t EXCEPT !.next_idx_min = @ + 1, !.next_idx_max = @ + 1]
    IN IF ~column_has_intervals(t)
       THEN [thrown |-> TRUE, pair |-> << >>, tiles |-> moved]
       ELSE LET min == get_next_minimum(t)
                max == get_next_maximum(min.tiles)
            IN [thrown |-> FALSE,
                pair   |-> IF is_valid_bounds_entry(t, max.maximum)
                              /\ is_valid_bounds_entry(t, min.minimum)
                           THEN <<min.minimum, max.maximum>>
                           ELSE << >>,
                tiles  |-> max.tiles]

\* get_next_pair: thrown is the std::runtime_error, pair is the pair, or << >>
\* for the empty pointer, of the current column, and tiles is the object after
\* the call
get_next_pair(t) ==
    IF ~column_has_intervals(t)
    THEN [thrown |-> TRUE, pair |-> << >>, tiles |-> t]
    ELSE LET min == get_next_minimum(t)
             max == get_next_maximum(min.tiles)
         IN [thrown |-> FALSE,
             pair   |-> IF is_valid_bounds_entry(t, max.maximum)
                           /\ is_valid_bounds_entry(t, min.minimum)
                        THEN <<min.minimum, max.maximum>>
                        ELSE << >>,
             tiles  |-> max.tiles]

\* move_to_next_column that returns false when it has entered the last column
move_to_next_column_stops_early(t) ==
    LET moved == [t EXCEPT !.current_x = @ + 1, !.next_idx_min = 0, !.next_idx_max = 0]
    IN [more  |-> moved.current_x + 1 < Len(moved.min_bounds)
                  /\ moved.current_x + 1 < Len(moved.max_bounds),
        tiles |-> moved]

\* move_to_next_column: more is the value returned, tiles the object after the call
move_to_next_column(t) ==
    LET moved == [t EXCEPT !.current_x = @ + 1, !.next_idx_min = 0, !.next_idx_max = 0]
    IN [more  |-> moved.current_x < Len(moved.min_bounds)
                  /\ moved.current_x < Len(moved.max_bounds),
        tiles |-> moved]

get_current_x(t) == t.current_x + t.offset_x

----------------------------------------------------------------------------
(* from_wkb_line and from_wkb_polygon; the geometry the parser reads is a     *)
(* sequence of points <<lon, lat>>, or a sequence of such rings              *)

\* the object of the constructor expire_tiles(max, bbox, proj)
new_expire_tiles_bbox(max, bbox) ==
    [max_bbox      |-> bbox,
     maxzoom       |-> new_expire_tiles(max).maxzoom,
     map_width     |-> new_expire_tiles(max).map_width,
     tile_width    |-> new_expire_tiles(max).tile_width,
     last_tile_x   |-> new_expire_tiles(max).last_tile_x,
     last_tile_y   |-> new_expire_tiles(max).last_tile_y,
     m_dirty_tiles |-> new_expire_tiles(max).m_dirty_tiles]

from_point(e, lon, lat) ==
    LET tile == coords_to_tile(lon, lat, e.map_width)
    IN from_bbox(e, tile[1], tile[2], tile[1], tile[2])

\* the loop over the points of a line; read holds the object and the points
\* of the parser
RECURSIVE from_wkb_line_loop(_, _)
from_wkb_line_loop(read, i) ==
    IF i < Len(read.points)
    THEN from_wkb_line_loop(
             [e      |-> from_line_lon_lat(read.e, read.points[i][1], read.points[i][2],
                                           read.points[i + 1][1], read.points[i + 1][2]),
              points |-> read.points],
             i + 1)
    ELSE read.e

from_wkb_line(e, points) ==
    IF Len(points) = 0 THEN e
    ELSE IF Len(points) = 1 THEN from_point(e, points[1][1], points[1][2])
    ELSE from_wkb_line_loop([e |-> e, points |-> points], 1)

\* the bounding box <<min.x, min.y, max.x, max.y>> of the first num_pt points
RECURSIVE polygon_bbox(_, _, _)
polygon_bbox(points, i, box) ==
    IF i <= Len(points)
    THEN polygon_bbox(points, i + 1,
                      <<DMin(box[1], points[i][1]), DMin(box[2], points[i][2]),
                        DMax(box[3], points[i][1]), DMax(box[4], points[i][2])>>)
    ELSE box

\* the bounding box of the outer ring in tile coordinates, <<min_x, min_y, max_x, max_y>>
polygon_tile_bbox(map_width, rings) ==
    LET initpt == rings[1][1]
        box == polygon_bbox(rings[1], 2, <<initpt[1], initpt[2], initpt[1], initpt[2]>>)
        min_tile == coords_to_tile(box[1], box[4], map_width)
        max_tile == coords_to_tile(box[3], box[2], map_width)
    IN <<min_tile[1], min_tile[2], max_tile[1], max_tile[2]>>

polygon_is_evil(max_bbox, rings) ==
    LET initpt == rings[1][1]
        box == polygon_bbox(rings[1], 2, <<initpt[1], initpt[2], initpt[1], initpt[2]>>)
    IN DLess(max_bbox, DSub(box[3], box[1])) \/ DLess(max_bbox, DSub(box[4], box[2]))

\* ewkb::parser_t over the WKB of a polygon: the number of rings, and for
\* every ring its number of points and its points; pos is the item, counted
\* from 1, that the next read takes
RECURSIVE wkb_rings(_, _)
wkb_rings(rings, ring) ==
    IF ring <= Len(rings)
    THEN <<[kind |-> "length", value |-> Len(rings[ring])]>>
         \o [k \in 1 .. Len(rings[ring]) |-> [kind |-> "point", value |-> rings[ring][k]]]
         \o wkb_rings(rings, ring + 1)
    ELSE << >>

wkb_polygon(rings) ==
    [items |-> <<[kind |-> "length", value |-> Len(rings)]>> \o wkb_rings(rings, 1),
     pos   |-> 1]

\* a read takes the item at pos; when the item is of the other kind, its
\* bytes are taken for the value
read_length(wkb) ==
    [value |-> IF wkb.pos <= Len(wkb.items) /\ wkb.items[wkb.pos].kind = "length"
               THEN wkb.items[wkb.pos].value
               ELSE Undefined,
     wkb   |-> [wkb EXCEPT !.pos = @ + 1]]

read_point(wkb) ==
    [value |-> IF wkb.pos <= Len(wkb.items) /\ wkb.items[wkb.pos].kind = "point"
               THEN wkb.items[wkb.pos].value
               ELSE Undefined,
     wkb   |-> [wkb EXCEPT !.pos = @ + 1]]

save_pos(wkb) == wkb.pos

rewind(wkb, pos) == [wkb EXCEPT !.pos = pos]

\* the loop over the points of a ring; read holds the bounds, the parser, and
\* the calls of evaluate_segment as <<ring, number of the edge>>
RECURSIVE polygon_ring_segments(_, _, _, _, _, _)
polygon_ring_segments(read, map_width, prev, i, ring_size, ring) ==
    IF ~read.tiles.thrown /\ i < ring_size
    THEN LET cur == read_point(read.wkb)
             tile_a == coords_to_tile(prev[1], prev[2], map_width)
             tile_b == coords_to_tile(cur.value[1], cur.value[2], map_width)
         IN polygon_ring_segments(
                [read EXCEPT !.tiles = evaluate_segment(@, tile_a[1], tile_a[2],
                                                        tile_b[1], tile_b[2], ring = 1),
                             !.wkb = cur.wkb,
                             !.segments = Append(@, <<ring, i>>)],
                map_width, cur.value, i + 1, ring_size, ring)
    ELSE read

\* the loop over the rings, ring counted from 1: a degenerated outer ring ends
\* from_wkb_polygon (returned); lengths keeps the positions of the parser at
\* the calls of read_length; a read_length that takes the bytes of a point
\* for a length (misread) ends the loop of the model
RECURSIVE polygon_rings(_, _, _, _)
polygon_rings(read, map_width, num_rings, ring) ==
    IF ~read.tiles.thrown /\ ~read.returned /\ ~read.misread /\ ring <= num_rings
    THEN LET ring_size == read_length(read.wkb)
             after == [read EXCEPT !.wkb = ring_size.wkb,
                                   !.lengths = Append(@, save_pos(read.wkb))]
         IN IF ring_size.value = Undefined
            THEN [after EXCEPT !.misread = TRUE]
            ELSE IF ring_size.value <= 1 /\ ring = 1
            THEN [after EXCEPT !.returned = TRUE]
            ELSE IF ring_size.value <= 3
            THEN polygon_rings(after, map_width, num_rings, ring + 1)
            ELSE LET prev == read_point(after.wkb)
                 IN polygon_rings(
                        polygon_ring_segments([after EXCEPT !.wkb = prev.wkb], map_width,
                                              prev.value, 1, ring_size.value, ring),
                        map_width, num_rings, ring + 1)
    ELSE read

\* the loops that mark the tiles, with every interval one column further east
RECURSIVE polygon_mark_tiles_next_column(_)
polygon_mark_tiles_next_column(marking) ==
    IF column_has_intervals(marking.tiles)
    THEN LET interval == get_next_pair(marking.tiles)
         IN IF interval.pair = << >>
            THEN polygon_mark_tiles_next_column([e |-> marking.e, tiles |-> interval.tiles])
            ELSE polygon_mark_tiles_next_column(
                     [e     |-> from_bbox_without_buffer(marking.e,
                                                         get_current_x(interval.tiles) + 1, interval.pair[1],
                                                         get_current_x(interval.tiles) + 1, interval.pair[2]),
                      tiles |-> interval.tiles])
    ELSE LET moved == move_to_next_column(marking.tiles)
         IN IF moved.more
            THEN polygon_mark_tiles_next_column([e |-> marking.e, tiles |-> moved.tiles])
            ELSE marking.e

\* the loops that mark the tiles, get_next_pair and move_to_next_column in
\* turn; marking holds the object and the bounds
RECURSIVE polygon_mark_tiles(_)
polygon_mark_tiles(marking) ==
    IF column_has_intervals(marking.tiles)
    THEN LET interval == get_next_pair(marking.tiles)
         IN IF interval.pair = << >>
            THEN polygon_mark_tiles([e |-> marking.e, tiles |-> interval.tiles])
            ELSE polygon_mark_tiles(
                     [e     |-> from_bbox_without_buffer(marking.e,
                                                         get_current_x(interval.tiles), interval.pair[1],
                                                         get_current_x(interval.tiles), interval.pair[2]),
                      tiles |-> interval.tiles])
    ELSE LET moved == move_to_next_column(marking.tiles)
         IN IF moved.more
            THEN polygon_mark_tiles([e |-> marking.e, tiles |-> moved.tiles])
            ELSE marking.e

\* the loop over the rings of from_wkb_polygon, from wkb->rewind(start) on
polygon_read(map_width, rings) ==
    LET box == polygon_tile_bbox(map_width, rings)
        num_rings == read_length(wkb_polygon(rings))
        start == save_pos(num_rings.wkb)
    IN polygon_rings([tiles    |-> new_intersecting_tiles(box[1], box[3], map_width),
                      wkb      |-> rewind(num_rings.wkb, start),
                      returned |-> FALSE,
                      misread  |-> FALSE,
                      lengths  |-> << >>,
                      segments |-> << >>],
                     map_width, num_rings.value, 1)

\* the bounds of the columns when the loop over the rings has ended
polygon_tiles(map_width, rings) == polygon_read(map_width, rings).tiles

\* the polygon that does not cross the border of two columns
polygon_thin(e, rings) ==
    LET box == polygon_tile_bbox(e.map_width, rings)
    IN IF CastU32(box[1]) = CastU32(box[3])
       THEN from_bbox(e, box[1], box[2], box[3], box[4])
       ELSE e

\* an uncaught std::out_of_range ends from_wkb_polygon where it is thrown;
\* after a misread length the tiles of the bounds read so far are marked
from_wkb_polygon(e, rings) ==
    IF polygon_is_evil(e.max_bbox, rings)
    THEN from_wkb_line(e, rings[1])
    ELSE LET thin == polygon_thin(e, rings)
             read == polygon_read(e.map_width, rings)
         IN IF read.returned THEN thin
            ELSE IF read.tiles.thrown THEN thin
            ELSE polygon_mark_tiles([e |-> thin, tiles |-> sort_bounds(read.tiles)])

----------------------------------------------------------------------------
(* One object and one call of the rasterizer, after at most one call of      *)
(* expire_tile                                                               *)

\* the coordinates of boxes: near the borders and in the middle of a tile
BboxCoords(map_width) ==
    {Dbl(n, 20) : n \in {1, 10, 19, 21, 20 * map_width - 1}}

DoubleBboxArgs(e) ==
    {<<min_x, min_y, max_x, max_y>> :
        min_x \in BboxCoords(e.map_width), min_y \in BboxCoords(e.map_width),
        max_x \in BboxCoords(e.map_width), max_y \in BboxCoords(e.map_width)}

\* expire_vertical_line asserts y1 < y2
VerticalLineArgs(e) ==
    {a \in BboxCoords(e.map_width) \X {Dbl(n, 20) : n \in {1, 10, 19, 25, 20 * e.map_width - 1}}
                                   \X {Dbl(n, 20) : n \in {10, 19, 25, 39, 20 * e.map_width - 1}} :
        DLess(a[2], a[3])}

LineXCoords(map_width) ==
    {Dbl(n, 4) : n \in {-6, -2, 0, 1, 4, 6, 4 * map_width - 1, 4 * map_width + 2}}

LineYCoords(map_width) ==
    {Dbl(n, 4) : n \in {-6, -2, 1, 4, 6, 4 * map_width - 1, 4 * map_width + 2}}

\* expire_line asserts x1 < x2; the calls that convert a double of -1 or
\* less to uint32_t are left out
LineArgs(e) ==
    {a \in LineXCoords(e.map_width) \X LineYCoords(e.map_width)
           \X LineXCoords(e.map_width) \X LineYCoords(e.map_width) :
        /\ DLess(a[1], a[3])
        /\ LET calls == expire_line_calls(e.map_width, a[1], a[2], a[3], a[4])
           IN \A i \in 1 .. Len(calls) : calls[i][1] # Undefined /\ calls[i][2] # Undefined}

InitRaster ==
    /\ inst \in [{"et"} -> {new_expire_tiles(max) : max \in Zooms}]
    /\ writer = [w \in {"set"} |-> << >>]
    /\ call = [op |-> "none", args |-> << >>]
    /\ nops = 0
    /\ pc = "run"
    /\ codec = NoCodec

\* expire_tile(x, y), as from_bbox_without_buffer(x, y, x, y) calls it
ExpireTile(x, y) ==
    /\ call.op = "none"
    /\ inst' = [inst EXCEPT !["et"] = from_bbox_without_buffer(@, x, y, x, y)]
    /\ call' = [op |-> "expire_tile", args |-> <<x, y>>]
    /\ UNCHANGED <<writer, nops, pc, codec>>

FromBbox(min_x, min_y, max_x, max_y) ==
    /\ call.op \in {"none", "expire_tile"}
    /\ inst' = [inst EXCEPT !["et"] = from_bbox(@, min_x, min_y, max_x, max_y)]
    /\ call' = [op |-> "from_bbox", args |-> <<min_x, min_y, max_x, max_y>>]
    /\ UNCHANGED <<writer, nops, pc, codec>>

ExpireVerticalLine(x, y1, y2) ==
    /\ call.op \in {"none", "expire_tile"}
    /\ inst' = [inst EXCEPT !["et"] = expire_vertical_line(@, x, y1, y2)]
    /\ call' = [op |-> "expire_vertical_line", args |-> <<x, y1, y2>>]
    /\ UNCHANGED <<writer, nops, pc, codec>>

ExpireLine(x1, y1, x2, y2) ==
    /\ call.op \in {"none", "expire_tile"}
    /\ inst' = [inst EXCEPT !["et"] = expire_line(@, x1, y1, x2, y2)]
    /\ call' = [op |-> "expire_line", args |-> <<x1, y1, x2, y2>>]
    /\ UNCHANGED <<writer, nops, pc, codec>>

\* the coordinates of segments: in the middle of a tile and on both sides of
\* a border, within the leeway and beyond it
SegmentCoords == {Dbl(n, 20) : n \in {10, 17, 19, 21, 23, 26, 30}}

\* the calls of expire_line_segment that meet its preconditions x1 <= x2 and
\* x2 - x1 <= map_width / 2: the segments inside one column, those among
\* them with y1 = y2 included, and the segments across a border whose length
\* is a double with an exact square root
SegmentArgs(e) ==
    {a \in SegmentCoords \X SegmentCoords \X SegmentCoords \X SegmentCoords :
        /\ DLessEq(a[1], a[3])
        /\ DLessEq(DSub(a[3], a[1]), DInt(e.map_width \div 2))
        /\ \/ a[1] = a[3] /\ a[2] = a[4]
           \/ expire_line_segment_is_vertical(a[1], a[3])
           \/ HasSqrt(DAdd(DMul(DSub(a[4], a[2]), DSub(a[4], a[2])),
                           DMul(DSub(a[3], a[1]), DSub(a[3], a[1]))))}

\* expire_line_segment(x1, y1, x2, y2); a failed assert ends the program
\* unless the build has NDEBUG
ExpireLineSegment(x1, y1, x2, y2, ndebug) ==
    /\ call.op \in {"none", "expire_tile"}
    /\ LET asserts == expire_line_segment_asserts(inst["et"].map_width, x1, y1, x2, y2)
       IN /\ inst' = IF asserts \/ ndebug
                     THEN [inst EXCEPT !["et"] = expire_line_segment(@, x1, y1, x2, y2)]
                     ELSE inst
          /\ call' = [op |-> "expire_line_segment", args |-> <<x1, y1, x2, y2>>,
                      asserts |-> asserts]
    /\ UNCHANGED <<writer, nops, pc, codec>>

NextRaster ==
    \/ /\ call.op = "none"
       /\ \E x, y \in {0, inst["et"].map_width, inst["et"].map_width + 1} : ExpireTile(x, y)
    \/ /\ call.op \in {"none", "expire_tile"}
       /\ \/ \E a \in DoubleBboxArgs(inst["et"]) : FromBbox(a[1], a[2], a[3], a[4])
          \/ \E a \in VerticalLineArgs(inst["et"]) : ExpireVerticalLine(a[1], a[2], a[3])
          \/ \E a \in LineArgs(inst["et"]) : ExpireLine(a[1], a[2], a[3], a[4])
          \/ \E a \in SegmentArgs(inst["et"]) : \E ndebug \in BOOLEAN :
                ExpireLineSegment(a[1], a[2], a[3], a[4], ndebug)

SpecRaster == InitRaster /\ [][NextRaster]_vars

----------------------------------------------------------------------------
(* from_line_lon_lat on one object, and the same segment with its ends       *)
(* exchanged on a second, equal object                                       *)

\* a grid of half tiles, and two points 0.04 east of the antimeridian and
\* 0.12 east of the middle of the map whose segment has a slope of 3 : 4
LonCoords(map_width) ==
    {Dbl(n, 2) : n \in 0 .. 2 * map_width}
    \cup {Dbl(1, 25), Dbl(25 * (map_width \div 2) + 3, 25)}

LatCoords(map_width) ==
    {Dbl(n, 2) : n \in 1 .. 2 * map_width - 1} \cup {Dbl(50 * map_width - 97, 50)}

\* the calls of expire_line_segment whose asserts hold, whose segment length
\* is a double with an exact square root and that convert no double of -1 or
\* less to uint32_t
SegmentCallable(map_width, x1, y1, x2, y2) ==
    \/ x1 = x2 /\ y1 = y2
    \/ /\ DLessEq(x1, x2)
       /\ IF expire_line_segment_is_vertical(x1, x2)
          THEN y1 # y2
          ELSE /\ HasSqrt(DAdd(DMul(DSub(y2, y1), DSub(y2, y1)),
                               DMul(DSub(x2, x1), DSub(x2, x1))))
               /\ \A p \in {expire_line_segment_parallels(x1, y1, x2, y2)[k] : k \in {1, 2}} :
                     LET calls == expire_line_calls(map_width, p[1], p[2], p[3], p[4])
                     IN \A i \in 1 .. Len(calls) :
                           calls[i][1] # Undefined /\ calls[i][2] # Undefined

LineLonLatArgs(e) ==
    {a \in LonCoords(e.map_width) \X LatCoords(e.map_width)
           \X LonCoords(e.map_width) \X LatCoords(e.map_width) :
        LET segments == from_line_lon_lat_segments(e.map_width, a[1], a[2], a[3], a[4])
        IN \A i \in 1 .. Len(segments) :
              SegmentCallable(e.map_width, segments[i][1], segments[i][2],
                              segments[i][3], segments[i][4])}

InitLine ==
    /\ inst \in {[i \in {"et", "et2"} |-> new_expire_tiles(max)] : max \in Zooms}
    /\ writer = [w \in {"set"} |-> << >>]
    /\ call = [op |-> "none", args |-> << >>, segments |-> << >>]
    /\ nops = 0
    /\ pc = "a_b"
    /\ codec = NoCodec

\* et.from_line_lon_lat(lon_a, lat_a, lon_b, lat_b)
FromLineLonLat(lon_a, lat_a, lon_b, lat_b) ==
    /\ pc = "a_b"
    /\ inst' = [inst EXCEPT !["et"] = from_line_lon_lat(@, lon_a, lat_a, lon_b, lat_b)]
    /\ call' = [op |-> "from_line_lon_lat", args |-> <<lon_a, lat_a, lon_b, lat_b>>,
                segments |-> from_line_lon_lat_segments(inst["et"].map_width,
                                                        lon_a, lat_a, lon_b, lat_b)]
    /\ pc' = "b_a"
    /\ UNCHANGED <<writer, nops, codec>>

\* et2.from_line_lon_lat(lon_b, lat_b, lon_a, lat_a) with the points of the call on et
FromLineLonLatExchanged ==
    /\ pc = "b_a"
    /\ inst' = [inst EXCEPT !["et2"] = from_line_lon_lat(@, call.args[3], call.args[4],
                                                         call.args[1], call.args[2])]
    /\ pc' = "both"
    /\ UNCHANGED <<writer, call, nops, codec>>

NextLine ==
    \/ /\ pc = "a_b"
       /\ \E a \in LineLonLatArgs(inst["et"]) : FromLineLonLat(a[1], a[2], a[3], a[4])
    \/ FromLineLonLatExchanged

SpecLine == InitLine /\ [][NextLine]_vars

----------------------------------------------------------------------------
(* from_wkb_polygon and from_wkb_line on one object *)

PolygonZooms == {3}

\* max_bbox in the units of the coordinates: one tile at zoom 3, and the
\* whole map
MaxBboxes == {DInt(1), DInt(8)}

\* the point <<lon, lat>> that coords_to_tile takes to the tile coordinates p
TilePoint(map_width, p) == <<p[1], DSub(DInt(map_width), p[2])>>

\* the closed ring along the box <<x1, y1, x2, y2>> of tile coordinates whose
\* side with the larger y runs east (east_in_south) or west
RectangleRing(map_width, box, east_in_south) ==
    LET nw == TilePoint(map_width, <<box[1], box[2]>>)
        sw == TilePoint(map_width, <<box[1], box[4]>>)
        se == TilePoint(map_width, <<box[3], box[4]>>)
        ne == TilePoint(map_width, <<box[3], box[2]>>)
    IN IF east_in_south THEN <<nw, sw, se, ne, nw>> ELSE <<nw, ne, se, sw, nw>>

OuterBoxes ==
    {Dbl(3, 5), Dbl(21, 20)} \X {Dbl(1, 5)} \X {Dbl(29, 5), Dbl(13, 2)} \X {Dbl(26, 5), Dbl(119, 20)}

HoleBoxes ==
    {Dbl(3, 2), Dbl(2, 1), Dbl(41, 20)} \X {Dbl(7, 10), Dbl(39, 20), Dbl(23, 10)}
    \X {Dbl(4, 1), Dbl(27, 5), Dbl(99, 20)} \X {Dbl(13, 5), Dbl(21, 5), Dbl(81, 20)}

\* rectangles of three tiles and their holes across the border of the
\* columns 2 and 3
SmallOuterBoxes ==
    {<<Dbl(3, 2), Dbl(3, 2), Dbl(9, 2), Dbl(7, 2)>>, <<Dbl(3, 2), Dbl(3, 2), Dbl(9, 2), Dbl(9, 2)>>}

SmallHoleBoxes ==
    {<<Dbl(11, 5), Dbl(11, 5), Dbl(19, 5), Dbl(14, 5)>>,
     <<Dbl(11, 5), Dbl(11, 5), Dbl(19, 5), Dbl(17, 5)>>}

\* rectangles with and without a rectangular hole, in both windings
RectanglePolygons(map_width, outers, holes) ==
    {<<RectangleRing(map_width, outer, w)>> : outer \in outers, w \in BOOLEAN}
    \cup {<<RectangleRing(map_width, b[1], b[3]), RectangleRing(map_width, b[2], b[4])>> :
             b \in outers \X holes \X BOOLEAN \X BOOLEAN}

\* the polygon of test_intersecting_tiles_inner_ring, with and without its
\* inner ring
SlantedPolygons(map_width) ==
    LET outer == [i \in 1 .. 5 |->
                     TilePoint(map_width,
                               << <<Dbl(3, 5), Dbl(3, 10)>>, <<Dbl(8, 5), Dbl(26, 5)>>,
                                  <<Dbl(11, 2), Dbl(47, 10)>>, <<Dbl(29, 5), Dbl(1, 5)>>,
                                  <<Dbl(3, 5), Dbl(3, 10)>> >>[i])]
        inner == [i \in 1 .. 5 |->
                     TilePoint(map_width,
                               << <<Dbl(3, 2), Dbl(7, 10)>>, <<Dbl(27, 5), Dbl(7, 10)>>,
                                  <<Dbl(53, 10), Dbl(43, 10)>>, <<Dbl(9, 5), Dbl(21, 5)>>,
                                  <<Dbl(3, 2), Dbl(7, 10)>> >>[i])]
    IN {<<outer>>, <<outer, inner>>}

\* triangles inside the tile columns 3 and 7, the last column of the map at zoom 3
ThinPoints(map_width, column) ==
    {TilePoint(map_width, <<DAdd(DInt(column), x), y>>) :
        x \in {Dbl(1, 20), Dbl(1, 2), Dbl(19, 20)},
        y \in {Dbl(21, 20), Dbl(5, 2), Dbl(159, 20)}}

ThinPolygons(map_width) ==
    {<< <<t[1], t[2], t[3], t[1]>> >> :
        t \in {u \in ThinPoints(map_width, 3) \X ThinPoints(map_width, 3) \X ThinPoints(map_width, 3) :
                  u[1] # u[2] /\ u[2] # u[3] /\ u[1] # u[3]}
              \cup {u \in ThinPoints(map_width, 7) \X ThinPoints(map_width, 7) \X ThinPoints(map_width, 7) :
                  u[1] # u[2] /\ u[2] # u[3] /\ u[1] # u[3]}}

RECURSIVE LineCallable(_, _, _)
LineCallable(map_width, points, i) ==
    i < Len(points) =>
       /\ LET segments == from_line_lon_lat_segments(map_width, points[i][1], points[i][2],
                                                     points[i + 1][1], points[i + 1][2])
          IN \A k \in 1 .. Len(segments) :
                SegmentCallable(map_width, segments[k][1], segments[k][2],
                                segments[k][3], segments[k][4])
       /\ LineCallable(map_width, points, i + 1)

\* the polygons that are not evil, the small rectangles, whose rings
\* from_line_lon_lat can take when they are evil, and polygons with a ring of
\* less than four points: the first points of a rectangle as the outer ring,
\* alone and before an inner ring, and the first points of a hole as an inner
\* ring, as the last ring and before another inner ring
PolygonArgs(e) ==
    {rings \in RectanglePolygons(e.map_width, OuterBoxes, HoleBoxes)
               \cup SlantedPolygons(e.map_width) \cup ThinPolygons(e.map_width) :
        ~polygon_is_evil(e.max_bbox, rings)}
    \cup LET outer == RectangleRing(e.map_width, <<Dbl(3, 2), Dbl(3, 2), Dbl(9, 2), Dbl(9, 2)>>, TRUE)
             inner == RectangleRing(e.map_width, <<Dbl(11, 5), Dbl(11, 5), Dbl(19, 5), Dbl(14, 5)>>, FALSE)
             other == RectangleRing(e.map_width, <<Dbl(11, 5), Dbl(16, 5), Dbl(19, 5), Dbl(19, 5)>>, FALSE)
         IN {rings \in {<<SubSeq(outer, 1, n)>> : n \in 1 .. 3}
                       \cup {<<SubSeq(outer, 1, n), inner>> : n \in 1 .. 3}
                       \cup {<<outer, SubSeq(inner, 1, n)>> : n \in 0 .. 3}
                       \cup {<<outer, SubSeq(inner, 1, n), other>> : n \in 0 .. 3} :
                ~polygon_is_evil(e.max_bbox, rings)}
    \cup {rings \in RectanglePolygons(e.map_width, SmallOuterBoxes, SmallHoleBoxes) :
             polygon_is_evil(e.max_bbox, rings) =>
                 \A ring \in 1 .. Len(rings) : LineCallable(e.map_width, rings[ring], 1)}

WkbLinePoints(map_width) ==
    {Dbl(1, 2), Dbl(2, 1), Dbl(7, 2)} \X {Dbl(1, 2), Dbl(2, 1), Dbl(7, 2)}

WkbLineArgs(e) ==
    {<< >>} \cup {<<p>> : p \in WkbLinePoints(e.map_width)}
    \cup {points \in {<<p, q>> : p, q \in WkbLinePoints(e.map_width)} :
             LineCallable(e.map_width, points, 1)}

\* no call of from_wkb_polygon
NoRead ==
    [pos |-> 0, items |-> 0, evil |-> FALSE, returned |-> FALSE, thrown |-> FALSE,
     misread |-> FALSE, lengths |-> << >>, segments |-> << >>]

InitPolygon ==
    /\ inst \in {[i \in {"et"} |-> new_expire_tiles_bbox(max, bbox)] :
                    max \in PolygonZooms, bbox \in MaxBboxes}
    /\ writer = [w \in {"set"} |-> << >>]
    /\ call = [op |-> "none", args |-> << >>, read |-> NoRead]
    /\ nops = 0
    /\ pc = "start"
    /\ codec = NoCodec

\* et.from_wkb_polygon(wkb, osm_id) with the parser at a polygon of these
\* rings. call.read is what the call has read: the position of the parser on
\* return (from_wkb_line has read the number of points and the points of the
\* first ring of an evil polygon), the items of the WKB, the positions of the
\* calls of read_length in the loop over the rings, the calls of
\* evaluate_segment. A length taken from the bytes of a point is any number:
\* the loop over the points runs beyond the WKB and from_wkb_polygon ends
\* there (ends), or the loop over the rings ends with the bounds read so far
FromWkbPolygon(rings, ends) ==
    /\ pc = "start"
    /\ \E evil \in {polygon_is_evil(inst["et"].max_bbox, rings)} :
       \E read \in {polygon_read(inst["et"].map_width, rings)} :
          /\ ends => ~evil /\ read.misread
          /\ inst' = [inst EXCEPT !["et"] = IF ends
                                            THEN polygon_thin(@, rings)
                                            ELSE from_wkb_polygon(@, rings)]
          /\ call' = [op   |-> "from_wkb_polygon",
                      args |-> rings,
                      read |-> [pos      |-> IF evil
                                             THEN save_pos(read_length(wkb_polygon(rings)).wkb)
                                                  + 1 + Len(rings[1])
                                             ELSE save_pos(read.wkb),
                                items    |-> Len(read.wkb.items),
                                evil     |-> evil,
                                returned |-> ~evil /\ read.returned,
                                thrown   |-> ~evil /\ read.tiles.thrown,
                                misread  |-> ~evil /\ read.misread,
                                lengths  |-> IF evil THEN << >> ELSE read.lengths,
                                segments |-> IF evil THEN << >> ELSE read.segments]]
    /\ pc' = "done"
    /\ UNCHANGED <<writer, nops, codec>>

\* et.from_wkb_line(wkb) with the parser at a line of these points
FromWkbLine(points) ==
    /\ pc = "start"
    /\ inst' = [inst EXCEPT !["et"] = from_wkb_line(@, points)]
    /\ call' = [op |-> "from_wkb_line", args |-> points, read |-> NoRead]
    /\ pc' = "done"
    /\ UNCHANGED <<writer, nops, codec>>

NextPolygon ==
    \/ /\ pc = "start"
       /\ \E rings \in PolygonArgs(inst["et"]) : \E ends \in BOOLEAN : FromWkbPolygon(rings, ends)
    \/ /\ pc = "start"
       /\ \E points \in WkbLineArgs(inst["et"]) : FromWkbLine(points)

SpecPolygon == InitPolygon /\ [][NextPolygon]_vars

----------------------------------------------------------------------------
(* Properties *)

\* the set of tiles a writer has received
Emitted(w) == {writer[w][i] : i \in 1 .. Len(writer[w])}

\* the tiles (x, y) whose quadkeys an object stores
StoredTiles(e) == {quadkey_to_xy(q, e.maxzoom) : q \in e.m_dirty_tiles}

\* the stored tiles with all their ancestors down to minzoom
AncestorClosure(e, minzoom) ==
    {[x |-> ShrU32(t.x, d), y |-> ShrU32(t.y, d), z |-> e.maxzoom - d] :
        t \in StoredTiles(e), d \in 0 .. (e.maxzoom - minzoom)}

\* bit k of a uint32_t x < 2^31, k <= 30
BitSet(x, k) == (x \div (2 ^ k)) % 2 = 1

\* C1: merge law. When the first sequence has run on et1 and the second on
\* et2, both have been merged into the new object et, and et and the object
\* et0 that received both sequences have been written with the same minzoom,
\* the two writers hold the same set of tiles.
MergeLaw == pc = "done" => Emitted("set") = Emitted("set0")

\* each sequence was one block of 2 x 2 tiles, the two blocks overlap (fewer
\* than 8 tiles in all), and the pyramid was written down to zoom 0
MergeLawWitness ==
    /\ pc = "done"
    /\ call.minzoom = 0
    /\ inst["et"].maxzoom = 2
    /\ nops = 2
    /\ inst["et1"].last_tile_x <= inst["et1"].map_width
    /\ inst["et2"].last_tile_x <= inst["et2"].map_width
    /\ Cardinality(inst["et"].m_dirty_tiles) \in 5 .. 7
    /\ Emitted("set") # {}

\* C2: a call of output_and_destroy with minzoom <= maxzoom hands to the
\* writer exactly the stored tiles and their ancestors at the zoom levels
\* minzoom .. maxzoom: none is missing, nothing else is written.
OutputIsAncestorClosure ==
    [][call'.op = "output_and_destroy" =>
          {writer'["set"][i] : i \in 1 .. Len(writer'["set"])} =
             AncestorClosure(inst[call'.this], call'.minzoom)]_vars

\* a set of at least five tiles of zoom 2 was written down to zoom 0
OutputIsAncestorClosureWitness ==
    /\ call.op = "output_and_destroy"
    /\ call.minzoom = 0
    /\ inst[call.this].maxzoom = 2
    /\ Cardinality(inst[call.this].m_dirty_tiles) >= 5
    /\ Len(writer["set"]) >= 8

\* C3: no writer receives the same tile (x, y, z) twice during one call of
\* output_and_destroy.
NoTileWrittenTwice ==
    \A w \in DOMAIN writer : \A i, j \in 1 .. Len(writer[w]) :
        i < j => writer[w][i] # writer[w][j]

\* the written set holds four tiles of zoom 2 with the same parent, together
\* with tiles of other parents, and the parents were written too
NoTileWrittenTwiceWitness ==
    /\ call.op = "output_and_destroy"
    /\ call.minzoom < inst[call.this].maxzoom
    /\ inst[call.this].maxzoom = 2
    /\ \E q \in inst[call.this].m_dirty_tiles :
          /\ Cardinality({o \in inst[call.this].m_dirty_tiles : Shr(o, 2) = Shr(q, 2)}) = 4
          /\ \E o \in inst[call.this].m_dirty_tiles : Shr(o, 2) # Shr(q, 2)

\* C4: quadkey round trip. For a tile index (x, y) of zoom z (x, y < 2^z),
\* quadkey_to_xy(xy_to_quadkey(x, y, z), z) is (x, y).
QuadkeyRoundTrip ==
    (/\ codec.stage \in {"decoded", "scaled"}
     /\ InRange(codec.x, codec.z)
     /\ InRange(codec.y, codec.z))
    => codec.xy = [x |-> codec.x, y |-> codec.y]

\* the largest index of zoom 31 and an odd index were encoded and decoded
QuadkeyRoundTripWitness ==
    /\ codec.stage = "decoded"
    /\ codec.z = 31
    /\ codec.x = MaxIndex(31)
    /\ codec.y = 5

\* C5: ancestor by shift. For a tile index (x, y) of zoom z and d <= z,
\* xy_to_quadkey(x, y, z) >> (2 d) is xy_to_quadkey(x >> d, y >> d, z - d).
AncestorByShift ==
    (/\ codec.stage = "scaled"
     /\ InRange(codec.x, codec.z)
     /\ InRange(codec.y, codec.z))
    => codec.shifted = codec.ancestor

\* a quadkey of zoom 18 was scaled down by two levels to a quadkey that is not 0
AncestorByShiftWitness ==
    /\ codec.stage = "scaled"
    /\ codec.z = 18
    /\ codec.d = 2
    /\ codec.x = 131068
    /\ codec.y = 5
    /\ codec.shifted # {}

\* C6: quadkey bit layout. For a tile index (x, y) of zoom z, bit 2k of
\* xy_to_quadkey(x, y, z) is bit k of x and bit 2k+1 is bit k of y for every
\* k < z, and no bit from 2z on is set, in 64-bit arithmetic: the quadkeys of
\* the unit tests are 0x27, 0xFFFFFFFF, 0xFFFFFFFFF and 0x3FFFFFFF0.
QuadkeyBitLayout ==
    (/\ codec.stage \in {"encoded", "decoded", "scaled"}
     /\ InRange(codec.x, codec.z)
     /\ InRange(codec.y, codec.z))
    => /\ \A k \in 0 .. (codec.z - 1) :
             /\ (2 * k) \in codec.quadkey <=> BitSet(codec.x, k)
             /\ (2 * k + 1) \in codec.quadkey <=> BitSet(codec.y, k)
       /\ \A b \in codec.quadkey : b < 2 * codec.z
       /\ (codec.x = 3 /\ codec.y = 5 /\ codec.z = 3) => codec.quadkey = {0, 1, 2, 5}
       /\ (codec.x = 65535 /\ codec.y = 65535 /\ codec.z = 16) => codec.quadkey = 0 .. 31
       /\ (codec.x = 262143 /\ codec.y = 262143 /\ codec.z = 18) => codec.quadkey = 0 .. 35
       /\ (codec.x = 131068 /\ codec.y = 131068 /\ codec.z = 18) => codec.quadkey = 4 .. 33

\* the 36-bit quadkey of test_xy_to_quadkey_z18 was computed
QuadkeyBitLayoutWitness ==
    /\ codec.stage = "encoded"
    /\ codec.x = 262143
    /\ codec.y = 262143
    /\ codec.z = 18
    /\ 35 \in codec.quadkey

\* C7: this.merge_and_destroy(other) throws exactly when map_width or
\* tile_width of the two objects differ, and then it leaves both objects as
\* they were.
MergeMismatchChangesNothing ==
    [][call'.op = "merge_and_destroy" =>
          /\ call'.thrown <=>
                \/ inst[call'.this].map_width # inst[call'.other].map_width
                \/ inst[call'.this].tile_width # inst[call'.other].tile_width
          /\ call'.thrown => inst' = inst]_vars

\* a merge of two objects of different zoom, both with tiles, has thrown
MergeMismatchChangesNothingWitness ==
    /\ call.op = "merge_and_destroy"
    /\ call.thrown
    /\ inst[call.this].m_dirty_tiles # {}
    /\ inst[call.other].m_dirty_tiles # {}

\* C8: after a this.merge_and_destroy(other) that did not throw, this holds
\* the union of the two sets as they were before the call and other is empty,
\* on the move path and on the insert path.
MergeIsUnion ==
    [][(call'.op = "merge_and_destroy" /\ ~call'.thrown) =>
          /\ call'.path = (IF inst[call'.this].m_dirty_tiles = {} THEN "move" ELSE "insert")
          /\ inst'[call'.this].m_dirty_tiles =
                inst[call'.this].m_dirty_tiles \cup inst[call'.other].m_dirty_tiles
          /\ inst'[call'.other].m_dirty_tiles = {}]_vars

\* the insert path was taken with two sets that overlap, each holding a tile
\* the other one lacks
MergeIsUnionWitness ==
    /\ call.op = "merge_and_destroy"
    /\ ~call.thrown
    /\ call.path = "insert"
    /\ Cardinality(inst[call.this].m_dirty_tiles) > call.sizes[1]
    /\ Cardinality(inst[call.this].m_dirty_tiles) > call.sizes[2]
    /\ Cardinality(inst[call.this].m_dirty_tiles) < call.sizes[1] + call.sizes[2]

\* C9: among the tiles of one zoom level, a writer receives the tiles in
\* strictly ascending order of their quadkeys at that zoom level.
PerZoomAscending ==
    \A w \in DOMAIN writer : \A i, j \in 1 .. Len(writer[w]) :
        (i < j /\ writer[w][i].z = writer[w][j].z) =>
            U64Less(xy_to_quadkey(writer[w][i].x, writer[w][i].y, writer[w][i].z),
                    xy_to_quadkey(writer[w][j].x, writer[w][j].y, writer[w][j].z))

\* tiles of another zoom level were written between two tiles of zoom 2, and
\* a tile with a smaller x was written after a tile with a larger x
PerZoomAscendingWitness ==
    /\ call.op = "output_and_destroy"
    /\ \E i, j, k \in 1 .. Len(writer["set"]) :
          /\ i < j /\ j < k
          /\ writer["set"][i].z = 2 /\ writer["set"][k].z = 2 /\ writer["set"][j].z # 2
    /\ \E i, j \in 1 .. Len(writer["set"]) :
          /\ i < j
          /\ writer["set"][i].z = 2 /\ writer["set"][j].z = 2
          /\ writer["set"][i].x > writer["set"][j].x

\* C10: output_and_destroy destroys the stored quadkeys: when it returns the
\* dirty set of the object is empty, and a second output_and_destroy that
\* follows it without an insertion in between writes no tile.
OutputDestroysTiles ==
    [][call'.op = "output_and_destroy" =>
          /\ inst'[call'.this].m_dirty_tiles = {}
          /\ call.op = "output_and_destroy" => writer'["set"] = << >>]_vars

----------------------------------------------------------------------------
(* Properties of the rasterizer *)

\* floor of a double
Floor(a) == a[1] \div a[2]

\* the tiles of the map of an object: 0 <= x, y < map_width
MapTiles(map_width) == [x : 0 .. map_width - 1, y : 0 .. map_width - 1]

\* all coordinates of a call inside the map: 0 <= c < map_width
InsideMap(args, map_width) ==
    \A i \in 1 .. Len(args) : DLessEq(DInt(0), args[i]) /\ DLess(args[i], DInt(map_width))

\* the valid tiles of the closed rectangle of a box inflated by the leeway
BufferedBoxTiles(map_width, min_x, min_y, max_x, max_y) ==
    {t \in MapTiles(map_width) :
        /\ Floor(DSub(min_x, TILE_EXPIRY_LEEWAY)) <= t.x
        /\ t.x <= Floor(DAdd(max_x, TILE_EXPIRY_LEEWAY))
        /\ Floor(DSub(min_y, TILE_EXPIRY_LEEWAY)) <= t.y
        /\ t.y <= Floor(DAdd(max_y, TILE_EXPIRY_LEEWAY))}

\* C11: from_bbox(min_x, min_y, max_x, max_y) with all coordinates inside the
\* map adds exactly the valid tiles (x, y < map_width) with
\* floor(min_x - 0.1) <= x <= floor(max_x + 0.1) and
\* floor(min_y - 0.1) <= y <= floor(max_y + 0.1), and nothing else.
FromBboxAddsBufferedBox ==
    [][call'.op = "from_bbox" /\ InsideMap(call'.args, inst["et"].map_width) =>
          StoredTiles(inst'["et"]) =
              StoredTiles(inst["et"])
              \cup BufferedBoxTiles(inst["et"].map_width, call'.args[1], call'.args[2],
                                    call'.args[3], call'.args[4])]_vars

\* C12: expire_vertical_line(x, y1, y2) adds no buffer: it marks exactly the
\* tiles (floor(x), y) with floor(y1) <= y <= floor(y2), all in the column
\* floor(x), also when x is within 0.1 of a column border.
VerticalLineOneColumn ==
    [][call'.op = "expire_vertical_line" /\ InsideMap(call'.args, inst["et"].map_width) =>
          StoredTiles(inst'["et"]) =
              StoredTiles(inst["et"])
              \cup {t \in MapTiles(inst["et"].map_width) :
                       /\ t.x = Floor(call'.args[1])
                       /\ Floor(call'.args[2]) <= t.y
                       /\ t.y <= Floor(call'.args[3])}]_vars

\* y of the straight line through (x1, y1) and (x2, y2) at x, and x at y
LineY(x1, y1, x2, y2, x) ==
    DAdd(y1, DDiv(DMul(DSub(y2, y1), DSub(x, x1)), DSub(x2, x1)))
LineX(x1, y1, x2, y2, y) ==
    DAdd(x1, DDiv(DMul(DSub(x2, x1), DSub(y, y1)), DSub(y2, y1)))

\* the tile of the start point, the tile entered at each crossing of an
\* integer x and the tile entered at each crossing of an integer y
CrossingTiles(map_width, x1, y1, x2, y2) ==
    {t \in MapTiles(map_width) :
        \/ t.x = Floor(x1) /\ t.y = Floor(y1)
        \/ /\ DLess(x1, DInt(t.x)) /\ DLessEq(DInt(t.x), x2)
           /\ t.y = Floor(LineY(x1, y1, x2, y2, DInt(t.x)))
        \/ /\ DLess(y1, DInt(t.y)) /\ DLessEq(DInt(t.y), y2)
           /\ t.x = Floor(LineX(x1, y1, x2, y2, DInt(t.y)))
        \/ /\ DLess(y2, DInt(t.y + 1)) /\ DLessEq(DInt(t.y + 1), y1)
           /\ t.x = Floor(LineX(x1, y1, x2, y2, DInt(t.y + 1)))}

\* the tiles whose open square (closed square, when closed) meets the segment
SegmentTiles(map_width, x1, y1, x2, y2, closed) ==
    {t \in MapTiles(map_width) :
        LET lo == DMax(x1, DInt(t.x))
            hi == DMin(x2, DInt(t.x + 1))
            ylo == LineY(x1, y1, x2, y2, lo)
            yhi == LineY(x1, y1, x2, y2, hi)
        IN IF closed
           THEN /\ DLessEq(lo, hi)
                /\ DLessEq(DInt(t.y), DMax(ylo, yhi))
                /\ DLessEq(DMin(ylo, yhi), DInt(t.y + 1))
           ELSE /\ DLess(lo, hi)
                /\ DLess(DInt(t.y), DMax(ylo, yhi))
                /\ DLess(DMin(ylo, yhi), DInt(t.y + 1))}

\* C13: expire_line(x1, y1, x2, y2) with x1 < x2 and both endpoints inside
\* the map marks exactly the tile of the start point and the tiles entered at
\* the crossings of integer x and integer y (the row below a crossing when
\* y2 > y1, the row above otherwise); these are tiles the segment passes
\* through, the tile of the end point is among them, and every tile whose
\* interior the segment passes through is marked.
LineMarksCrossedTiles ==
    [][call'.op = "expire_line" /\ InsideMap(call'.args, inst["et"].map_width) =>
          LET w == inst["et"].map_width
              a == call'.args
              crossed == CrossingTiles(w, a[1], a[2], a[3], a[4])
          IN /\ StoredTiles(inst'["et"]) = StoredTiles(inst["et"]) \cup crossed
             /\ [x |-> Floor(a[3]), y |-> Floor(a[4])] \in crossed
             /\ SegmentTiles(w, a[1], a[2], a[3], a[4], FALSE) \subseteq crossed
             /\ crossed \subseteq SegmentTiles(w, a[1], a[2], a[3], a[4], TRUE)]_vars

LineMarksCrossedTilesWitness ==
    /\ call.op = "expire_line"
    /\ InsideMap(call.args, inst["et"].map_width)
    /\ DLess(call.args[4], call.args[2])
    /\ Cardinality(inst["et"].m_dirty_tiles) >= 4

\* both endpoints of a line above the map, both left of it or on its left
\* border, or both beyond map_width
WhollyOutside(map_width, x1, y1, x2, y2) ==
    \/ DLess(y1, DInt(0)) /\ DLess(y2, DInt(0))
    \/ DLessEq(x1, DInt(0)) /\ DLessEq(x2, DInt(0))
    \/ DLess(DInt(map_width), x1) /\ DLess(DInt(map_width), x2)
    \/ DLess(DInt(map_width), y1) /\ DLess(DInt(map_width), y2)

\* C14: expire_line on a segment that lies wholly outside
\* [0, map_width] x [0, map_width] leaves the dirty set unchanged.
LineOutsideIsNoOp ==
    [][/\ call'.op = "expire_line"
       /\ WhollyOutside(inst["et"].map_width, call'.args[1], call'.args[2],
                        call'.args[3], call'.args[4])
       => inst'["et"].m_dirty_tiles = inst["et"].m_dirty_tiles]_vars

\* C20: expire_tile(x, y) with x >= map_width or y >= map_width changes
\* neither the dirty set nor the last-tile cache.
InvalidTileIsDropped ==
    [][/\ call'.op = "expire_tile"
       /\ \/ call'.args[1] >= inst["et"].map_width
          \/ call'.args[2] >= inst["et"].map_width
       => inst'["et"] = inst["et"]]_vars

----------------------------------------------------------------------------
(* Properties of from_line_lon_lat *)

\* C15: from_line_lon_lat(a, b) and from_line_lon_lat(b, a) on equal objects
\* produce the same dirty set, also when the projected x coordinates are
\* equal and when the segment crosses the antimeridian.
LineLonLatSymmetric ==
    pc = "both" => inst["et"].m_dirty_tiles = inst["et2"].m_dirty_tiles

LineLonLatSymmetricWitness ==
    /\ pc = "both"
    /\ Len(call.segments) = 2
    /\ DLess(call.args[3], call.args[1])
    /\ Cardinality(inst["et2"].m_dirty_tiles) >= 3

\* the projected ends of a segment, the western one first
WestEnd(map_width, args) ==
    LET p == coords_to_tile(args[1], args[2], map_width)
        q == coords_to_tile(args[3], args[4], map_width)
    IN IF DLess(q[1], p[1]) THEN q ELSE p
EastEnd(map_width, args) ==
    LET p == coords_to_tile(args[1], args[2], map_width)
        q == coords_to_tile(args[3], args[4], map_width)
    IN IF DLess(q[1], p[1]) THEN p ELSE q

\* the ends differ in x by more than map_width / 2 and are not both on the
\* antimeridian
CrossesAntimeridian(map_width, args) ==
    LET a == WestEnd(map_width, args)
        b == EastEnd(map_width, args)
    IN /\ DLess(Dbl(map_width, 2), DSub(b[1], a[1]))
       /\ ~(a[1] = DInt(0) /\ b[1] = DInt(map_width))

\* C16: a segment that crosses the antimeridian is rasterized as the two
\* sub-segments (0, y_split)-(x_a, y_a) and (x_b, y_b)-(map_width, y_split),
\* each with x1 <= x2 and x2 - x1 <= map_width / 2, and no tile in a column
\* strictly between floor(x_a + 0.1) and floor(x_b - 0.1) is marked.
AntimeridianSplit ==
    [][call'.op = "from_line_lon_lat" /\ pc = "a_b"
       /\ CrossesAntimeridian(inst["et"].map_width, call'.args) =>
          LET w == inst["et"].map_width
              a == WestEnd(w, call'.args)
              b == EastEnd(w, call'.args)
              y_split == LineY(DSub(b[1], DInt(w)), b[2], a[1], a[2], DInt(0))
          IN /\ call'.segments = << <<DInt(0), y_split, a[1], a[2]>>,
                                    <<b[1], b[2], DInt(w), y_split>> >>
             /\ \A k \in {1, 2} :
                   /\ DLessEq(call'.segments[k][1], call'.segments[k][3])
                   /\ DLessEq(DSub(call'.segments[k][3], call'.segments[k][1]), Dbl(w, 2))
             /\ \A t \in StoredTiles(inst'["et"]) \ StoredTiles(inst["et"]) :
                   ~(/\ Floor(DAdd(a[1], TILE_EXPIRY_LEEWAY)) < t.x
                     /\ t.x < Floor(DSub(b[1], TILE_EXPIRY_LEEWAY)))]_vars

\* the object after from_wkb_line has taken every ring from ring on
RECURSIVE EveryRingAsLine(_, _, _)
EveryRingAsLine(e, rings, ring) ==
    IF ring <= Len(rings)
    THEN EveryRingAsLine(from_wkb_line(e, rings[ring]), rings, ring + 1)
    ELSE e

\* C17: from_wkb_polygon of an evil polygon, one whose outer ring has a
\* bounding box wider or taller than max_bbox, marks the tiles that
\* from_line_lon_lat marks for the consecutive points of every ring of the
\* polygon, and no other tile
EvilPolygonExpiresEveryRing ==
    [][(call'.op = "from_wkb_polygon" /\ polygon_is_evil(inst["et"].max_bbox, call'.args))
       => inst'["et"].m_dirty_tiles
          = EveryRingAsLine(inst["et"], call'.args, 1).m_dirty_tiles]_vars

\* the polygon of a call of from_wkb_polygon is not evil and its projected
\* bounding box lies in one tile column
ThinPolygonCall(e, c) ==
    /\ c.op = "from_wkb_polygon"
    /\ ~polygon_is_evil(e.max_bbox, c.args)
    /\ Floor(polygon_tile_bbox(e.map_width, c.args)[1])
       = Floor(polygon_tile_bbox(e.map_width, c.args)[3])

\* C18: when the projected bounding box of a polygon has floor(min_x) equal
\* to floor(max_x), the dirty set after from_wkb_polygon is the dirty set after
\* from_bbox(min_x, min_y, max_x, max_y) alone: the scanline that follows adds
\* no tile
ThinPolygonIsItsBbox ==
    [][ThinPolygonCall(inst["et"], call')
       => LET box == polygon_tile_bbox(inst["et"].map_width, call'.args)
          IN inst'["et"].m_dirty_tiles
             = from_bbox(inst["et"], box[1], box[2], box[3], box[4]).m_dirty_tiles]_vars

\* a thin polygon has been expired whose scanline marked a tile: some column
\* of its bounds holds a pair of a valid minimum and a valid maximum in order
ThinPolygonIsItsBboxWitness ==
    /\ pc = "done"
    /\ ThinPolygonCall(inst["et"], call)
    /\ inst["et"].m_dirty_tiles # {}
    /\ LET tiles == sort_bounds(polygon_tiles(inst["et"].map_width, call.args))
       IN \E c \in 1 .. Len(tiles.min_bounds) :
             \E k \in 1 .. Min2(Len(tiles.min_bounds[c]), Len(tiles.max_bounds[c])) :
                /\ tiles.min_bounds[c][k] <= tiles.max_bounds[c][k]
                /\ is_valid_bounds_entry(tiles, tiles.max_bounds[c][k])

\* twice the area of a closed ring, positive when the ring runs
\* counterclockwise in lon and lat
RECURSIVE SignedArea(_, _)
SignedArea(ring, i) ==
    IF i < Len(ring)
    THEN DAdd(DSub(DMul(ring[i][1], ring[i + 1][2]), DMul(ring[i + 1][1], ring[i][2])),
              SignedArea(ring, i + 1))
    ELSE DInt(0)

Counterclockwise(ring) == DLess(DInt(0), SignedArea(ring, 1))
Clockwise(ring) == DLess(SignedArea(ring, 1), DInt(0))

\* the box <<west, north, east, south>> of tile coordinates inside a ring of
\* four corners: the second and the third of its x and of its y values
InnerBox(map_width, ring) ==
    LET corner == [i \in 1 .. 4 |-> coords_to_tile(ring[i][1], ring[i][2], map_width)]
        pairs == {q \in (1 .. 4) \X (1 .. 4) : q[1] < q[2]}
        Second(k) == CHOOSE v \in {DMax(corner[q[1]][k], corner[q[2]][k]) : q \in pairs} :
                        \A q \in pairs : DLessEq(v, DMax(corner[q[1]][k], corner[q[2]][k]))
        Third(k) == CHOOSE v \in {DMin(corner[q[1]][k], corner[q[2]][k]) : q \in pairs} :
                        \A q \in pairs : DLessEq(DMin(corner[q[1]][k], corner[q[2]][k]), v)
    IN <<Second(1), Second(2), Third(1), Third(2)>>

\* the intervals that get_next_pair returns in column x of the tile grid
EmittedIntervals(tiles, x) ==
    LET mins == tiles.min_bounds[get_x_index(tiles, x) + 1]
        maxs == tiles.max_bounds[get_x_index(tiles, x) + 1]
        Valid(pair) == is_valid_bounds_entry(tiles, pair[1]) /\ is_valid_bounds_entry(tiles, pair[2])
    IN SelectSeq([k \in 1 .. Min2(Len(mins), Len(maxs)) |-> <<mins[k], maxs[k]>>], Valid)

TileColumns(tiles) == tiles.offset_x .. tiles.offset_x + Len(tiles.min_bounds) - 1

\* the call is from_wkb_polygon of a polygon that is not evil and has an outer
\* and one inner ring of four corners, wound in opposite directions
HoleCall(e, c) ==
    /\ c.op = "from_wkb_polygon"
    /\ ~polygon_is_evil(e.max_bbox, c.args)
    /\ Len(c.args) = 2
    /\ Len(c.args[1]) = 5 /\ Len(c.args[2]) = 5
    /\ \/ Counterclockwise(c.args[1]) /\ Clockwise(c.args[2])
       \/ Clockwise(c.args[1]) /\ Counterclockwise(c.args[2])

\* the rows from the north to the south of the outer ring, with the leeway
OuterRows(map_width, rings) ==
    <<Floor(DSub(polygon_tile_bbox(map_width, rings)[2], TILE_EXPIRY_LEEWAY)),
      Floor(DAdd(polygon_tile_bbox(map_width, rings)[4], TILE_EXPIRY_LEEWAY))>>

LastTileIsInDirtySet ==
    \A i \in DOMAIN inst :
        (valid_tile_coord(inst[i], inst[i].last_tile_x)
            /\ valid_tile_coord(inst[i], inst[i].last_tile_y))
           => xy_to_quadkey(inst[i].last_tile_x, inst[i].last_tile_y, inst[i].maxzoom)
                 \in inst[i].m_dirty_tiles

\* the nearly vertical calls of expire_line_segment whose asserts hold, the
\* segments of one point left out
VerticalSegmentCall(c) ==
    /\ c.op = "expire_line_segment"
    /\ c.asserts
    /\ ~(c.args[1] = c.args[3] /\ c.args[2] = c.args[4])
    /\ expire_line_segment_is_vertical(c.args[1], c.args[3])

\* C26: expire_line_segment on a nearly vertical segment marks exactly the
\* rows floor(min(y1, y2)) .. floor(max(y1, y2)) in the column
\* floor(x1 - 0.1) and in the column floor(x1 + 0.1), which is the same
\* column for a segment in the middle of a column
VerticalSegmentMarksItsRows ==
    [][VerticalSegmentCall(call') =>
          StoredTiles(inst'["et"]) =
              StoredTiles(inst["et"])
              \cup {t \in MapTiles(inst["et"].map_width) :
                       /\ t.x \in {Floor(DSub(call'.args[1], TILE_EXPIRY_LEEWAY)),
                                   Floor(DAdd(call'.args[1], TILE_EXPIRY_LEEWAY))}
                       /\ Floor(DMin(call'.args[2], call'.args[4])) <= t.y
                       /\ t.y <= Floor(DMax(call'.args[2], call'.args[4]))}]_vars

\* C28: every call of expire_line_segment that meets the documented
\* preconditions x1 <= x2 and x2 - x1 <= map_width / 2 meets the asserts of
\* expire_vertical_line (y1 < y2) and of expire_line (x1 < x2) in the calls
\* it makes, so that no assert fails
SegmentAssertsHold ==
    call.op = "expire_line_segment" => call.asserts

----------------------------------------------------------------------------
(* One intersecting_tiles_t object: segments are evaluated, the bounds are   *)
(* sorted, and the columns are read with get_next_pair and                   *)
(* move_to_next_column in any order until move_to_next_column returns false  *)

MaxSegments == 3

TilesMapWidths == {4}

\* the arguments x_min and x_max of the constructor: three columns, and one column
TilesRanges == {<<Dbl(6, 10), Dbl(24, 10)>>, <<Dbl(13, 10), Dbl(17, 10)>>}

\* ends of segments: in the middle of the columns 0, 1 and 2 and within the
\* leeway of the border between the columns 0 and 1
TilesPoints ==
    {<<Dbl(6, 10), Dbl(5, 10)>>, <<Dbl(24, 10), Dbl(5, 10)>>, <<Dbl(24, 10), Dbl(25, 10)>>,
     <<Dbl(21, 20), Dbl(15, 10)>>, <<Dbl(15, 10), Dbl(15, 10)>>, <<Dbl(15, 10), Dbl(35, 10)>>}

\* the points whose columns, with the leeway, are columns of the object
PointsOf(t) ==
    {p \in TilesPoints :
        /\ t.offset_x <= CastU32(DSub(p[1], TILE_EXPIRY_LEEWAY))
        /\ CastU32(DAdd(p[1], TILE_EXPIRY_LEEWAY)) < t.offset_x + Len(t.min_bounds)}

NoEmission == [pairs |-> << >>, columns |-> << >>]

InitTiles ==
    /\ inst \in [{"tiles"} -> {new_intersecting_tiles(r[1], r[2], w) :
                                  r \in TilesRanges, w \in TilesMapWidths}]
    /\ writer = NoEmission
    /\ call = [op |-> "none", args |-> << >>, thrown |-> FALSE, pair |-> << >>, more |-> TRUE]
    /\ nops = 0
    /\ pc = "segments"
    /\ codec = NoCodec

\* tiles.evaluate_segment(x1, y1, x2, y2, outer_ring)
EvaluateSegment(a, b, outer_ring) ==
    /\ pc = "segments"
    /\ nops < MaxSegments
    /\ inst' = [inst EXCEPT !["tiles"] = evaluate_segment(@, a[1], a[2], b[1], b[2], outer_ring)]
    /\ call' = [op |-> "evaluate_segment", args |-> <<a[1], a[2], b[1], b[2], outer_ring>>,
                thrown |-> FALSE, pair |-> << >>, more |-> TRUE]
    /\ nops' = nops + 1
    /\ UNCHANGED <<writer, pc, codec>>

\* tiles.sort_bounds(); the reading of the columns starts at the first column
SortBounds ==
    /\ pc = "segments"
    /\ inst' = [inst EXCEPT !["tiles"] = sort_bounds(@)]
    /\ call' = [op |-> "sort_bounds", args |-> << >>, thrown |-> FALSE,
                pair |-> << >>, more |-> TRUE]
    /\ writer' = [writer EXCEPT !.columns = <<get_current_x(inst["tiles"])>>]
    /\ pc' = "columns"
    /\ UNCHANGED <<nops, codec>>

\* tiles.get_next_pair(), the exception caught by the caller; writer.pairs
\* keeps what the calls returned and the entries they were read from
GetNextPair ==
    /\ pc = "columns"
    /\ LET r == get_next_pair(inst["tiles"])
       IN /\ inst' = [inst EXCEPT !["tiles"] = r.tiles]
          /\ call' = [op |-> "get_next_pair", args |-> << >>,
                      thrown |-> r.thrown, pair |-> r.pair, more |-> TRUE]
          /\ writer' = IF r.thrown THEN writer
                       ELSE [writer EXCEPT !.pairs =
                                Append(@, [x       |-> get_current_x(inst["tiles"]),
                                           idx_min |-> inst["tiles"].next_idx_min,
                                           idx_max |-> inst["tiles"].next_idx_max,
                                           pair    |-> r.pair])]
    /\ UNCHANGED <<nops, pc, codec>>

\* tiles.move_to_next_column(), more is the value it returns; writer.columns
\* keeps get_current_x() of the columns that were entered
MoveToNextColumn ==
    /\ pc = "columns"
    /\ LET r == move_to_next_column(inst["tiles"])
       IN /\ inst' = [inst EXCEPT !["tiles"] = r.tiles]
          /\ call' = [op |-> "move_to_next_column", args |-> << >>,
                      thrown |-> FALSE, pair |-> << >>, more |-> r.more]
          /\ writer' = IF r.more
                       THEN [writer EXCEPT !.columns = Append(@, get_current_x(r.tiles))]
                       ELSE writer
          /\ pc' = IF r.more THEN "columns" ELSE "done"
    /\ UNCHANGED <<nops, codec>>

NextTiles ==
    \/ /\ pc = "segments"
       /\ \E a, b \in PointsOf(inst["tiles"]) : \E outer_ring \in BOOLEAN :
             EvaluateSegment(a, b, outer_ring)
    \/ SortBounds
    \/ GetNextPair
    \/ MoveToNextColumn

SpecTiles == InitTiles /\ [][NextTiles]_vars

----------------------------------------------------------------------------
(* The loop of from_wkb_polygon and of add_intervals_to_result_set over the  *)
(* sorted bounds of a ring whose segments follow each other:                 *)
(* do { while (column_has_intervals()) get_next_pair(); }                    *)
(* while (move_to_next_column());                                            *)

\* the next segment of a ring starts where the last one ended
RingSegment(a, b) ==
    /\ call.op = "evaluate_segment" => (a[1] = call.args[3] /\ a[2] = call.args[4])
    /\ EvaluateSegment(a, b, TRUE)

\* one step of the loop: get_next_pair while the column has intervals,
\* move_to_next_column when it has none
EmissionStep ==
    /\ pc = "columns"
    /\ \/ column_has_intervals(inst["tiles"]) /\ GetNextPair
       \/ ~column_has_intervals(inst["tiles"]) /\ MoveToNextColumn

NextEmission ==
    \/ /\ pc = "segments"
       /\ \E a, b \in PointsOf(inst["tiles"]) : RingSegment(a, b)
    \/ SortBounds
    \/ EmissionStep

\* the loop is sequential code: a step of it that can be taken is taken
SpecEmission == InitTiles /\ [][NextEmission]_vars /\ WF_vars(EmissionStep)

----------------------------------------------------------------------------
(* Properties of intersecting_tiles_t *)

\* the segment of the call spans more than one column, the leeway included
SpansColumns(args) ==
    CastU32(DSub(DMin(args[1], args[3]), TILE_EXPIRY_LEEWAY))
       # CastU32(DAdd(DMax(args[1], args[3]), TILE_EXPIRY_LEEWAY))

\* the columns, counted from 1, in which the call added a minimum, and those
\* in which it added a maximum
GrownMinimums(before, after) ==
    {c \in 1 .. Len(before.min_bounds) : Len(after.min_bounds[c]) > Len(before.min_bounds[c])}
GrownMaximums(before, after) ==
    {c \in 1 .. Len(before.max_bounds) : Len(after.max_bounds[c]) > Len(before.max_bounds[c])}

\* C22: for an edge that spans more than one column, evaluate_segment with
\* is_outer_ring = false records in each column the opposite kind of bound
\* from the one it records for the same edge with is_outer_ring = true
InnerRingInvertsBound ==
    [][(call'.op = "evaluate_segment" /\ ~call'.args[5] /\ SpansColumns(call'.args)) =>
          LET outer == evaluate_segment(inst["tiles"], call'.args[1], call'.args[2],
                                        call'.args[3], call'.args[4], TRUE)
          IN /\ GrownMinimums(inst["tiles"], inst'["tiles"]) = GrownMaximums(inst["tiles"], outer)
             /\ GrownMaximums(inst["tiles"], inst'["tiles"]) = GrownMinimums(inst["tiles"], outer)]_vars

\* C22, amended: for an edge that spans more than one column, evaluate_segment
\* does the same whatever is_outer_ring is; in every column of the edge it
\* records a maximum if the edge runs east (x1 < x2) and a minimum if it runs
\* west or is vertical, and no bound of the other kind
BoundKindFromDirection ==
    [][(call'.op = "evaluate_segment" /\ SpansColumns(call'.args)) =>
          LET before == inst["tiles"]
              after == inst'["tiles"]
              columns == {c \in 1 .. Len(before.min_bounds) :
                             /\ CastU32(DSub(DMin(call'.args[1], call'.args[3]),
                                             TILE_EXPIRY_LEEWAY)) <= before.offset_x + c - 1
                             /\ before.offset_x + c - 1
                                   <= CastU32(DAdd(DMax(call'.args[1], call'.args[3]),
                                                   TILE_EXPIRY_LEEWAY))}
          IN /\ after = evaluate_segment(before, call'.args[1], call'.args[2],
                                         call'.args[3], call'.args[4], ~call'.args[5])
             /\ IF DLess(call'.args[1], call'.args[3])
                   \/ (call'.args[1] = call'.args[3] /\ call'.args[2] = call'.args[4])
                THEN /\ GrownMaximums(before, after) = columns
                     /\ GrownMinimums(before, after) = {}
                ELSE /\ GrownMinimums(before, after) = columns
                     /\ GrownMaximums(before, after) = {}]_vars

\* a segment of an inner ring that runs west over the three columns has been
\* evaluated and has left a minimum in each of them
BoundKindFromDirectionWitness ==
    /\ call.op = "evaluate_segment"
    /\ ~call.args[5]
    /\ SpansColumns(call.args)
    /\ DLess(call.args[3], call.args[1])
    /\ \A c \in 1 .. 3 : Len(inst["tiles"].min_bounds[c]) > 0

NonSentinel(bounds) == SelectSeq(bounds, LAMBDA v : v # UINT32_MAX)

\* a vector of bounds in ascending order
Ascending(bounds) == \A k \in 1 .. Len(bounds) - 1 : bounds[k] <= bounds[k + 1]

\* C23: after sort_bounds(), for every sequence of evaluate_segment calls and
\* every column, min_bounds and max_bounds hold the same number of entries
\* that are not the sentinel, and the pairs get_next_pair returns in that
\* column have strictly increasing minimums, min <= max, and y-ranges that
\* are disjoint
SortedBoundsArePaired ==
    pc \in {"columns", "done"} =>
       \A x \in TileColumns(inst["tiles"]) :
          LET c == get_x_index(inst["tiles"], x) + 1
              pairs == EmittedIntervals(inst["tiles"], x)
          IN /\ Len(NonSentinel(inst["tiles"].min_bounds[c]))
                   = Len(NonSentinel(inst["tiles"].max_bounds[c]))
             /\ \A k \in 1 .. Len(pairs) : pairs[k][1] <= pairs[k][2]
             /\ \A k \in 1 .. Len(pairs) - 1 :
                   /\ pairs[k][1] < pairs[k + 1][1]
                   /\ pairs[k][2] < pairs[k + 1][1]

\* C23, amended: after sort_bounds(), for every sequence of evaluate_segment
\* calls and every column, both vectors are in ascending order, with the
\* sentinels last, and every pair get_next_pair returns in that column has a
\* minimum above the maximum of every pair returned before it
SortedBoundsAreDisjoint ==
    pc \in {"columns", "done"} =>
       \A x \in TileColumns(inst["tiles"]) :
          LET c == get_x_index(inst["tiles"], x) + 1
              pairs == EmittedIntervals(inst["tiles"], x)
          IN /\ Ascending(inst["tiles"].min_bounds[c])
             /\ Ascending(inst["tiles"].max_bounds[c])
             /\ \A j, k \in 1 .. Len(pairs) : j < k => pairs[j][2] < pairs[k][1]

\* the bounds of three segments have been sorted: a column holds more
\* minimums than maximums, a sentinel that took the place of a joined
\* interval, and a pair that get_next_pair returns
SortedBoundsAreDisjointWitness ==
    /\ pc = "columns"
    /\ nops = 3
    /\ \E x \in TileColumns(inst["tiles"]) :
          LET c == get_x_index(inst["tiles"], x) + 1
          IN /\ Len(EmittedIntervals(inst["tiles"], x)) = 1
             /\ Len(NonSentinel(inst["tiles"].min_bounds[c])) < Len(inst["tiles"].min_bounds[c])
             /\ Len(inst["tiles"].max_bounds[c]) < Len(inst["tiles"].min_bounds[c])

\* what holds at every step of the loop over the columns: no call has
\* thrown, the columns entered are offset_x, offset_x + 1, ... up to the
\* current one, move_to_next_column has returned false if and only if
\* current_x has passed the last column, and the entries get_next_pair has
\* read have the same index in both vectors and follow each other in the
\* order of the columns and of the indexes
EmissionInvariant ==
    pc \in {"columns", "done"} =>
       LET t == inst["tiles"]
           entered == IF pc = "done" THEN Len(t.min_bounds) ELSE t.current_x + 1
       IN /\ ~call.thrown
          /\ writer.columns = [k \in 1 .. entered |-> t.offset_x + k - 1]
          /\ pc = "done" <=> t.current_x >= Len(t.min_bounds)
          /\ call.op = "move_to_next_column" =>
                (~call.more <=> t.current_x >= Len(t.min_bounds))
          /\ pc = "columns" => get_current_x(t) = t.offset_x + t.current_x
          /\ \A k \in 1 .. Len(writer.pairs) :
                /\ writer.pairs[k].idx_min = writer.pairs[k].idx_max
                /\ writer.pairs[k].x \in TileColumns(t)
                /\ writer.pairs[k].idx_min
                      < Min2(Len(t.min_bounds[get_x_index(t, writer.pairs[k].x) + 1]),
                             Len(t.max_bounds[get_x_index(t, writer.pairs[k].x) + 1]))
          /\ \A j, k \in 1 .. Len(writer.pairs) :
                j < k => \/ writer.pairs[j].x < writer.pairs[k].x
                         \/ /\ writer.pairs[j].x = writer.pairs[k].x
                            /\ writer.pairs[j].idx_min < writer.pairs[k].idx_min

\* C30: the loop do { while (column_has_intervals()) get_next_pair(); }
\* while (move_to_next_column()); run after sort_bounds() ends, never throws,
\* enters every column once in ascending order with get_current_x() =
\* offset_x + column index, returns every entry of a column at most once, and
\* move_to_next_column() returns false exactly when the column index has
\* passed the last column
EmissionLoopTerminates ==
    /\ []EmissionInvariant
    /\ (pc = "columns") ~> (pc = "done")

\* the loop has ended after three columns, and get_next_pair has returned a
\* pair and an empty pointer
EmissionLoopTerminatesWitness ==
    /\ pc = "done"
    /\ nops = 3
    /\ Len(writer.columns) = 3
    /\ \E j, k \in 1 .. Len(writer.pairs) :
          writer.pairs[j].pair # << >> /\ writer.pairs[k].pair = << >>

----------------------------------------------------------------------------
(* Properties of the polygon fill *)

\* (q - p) x (r - p): positive when r lies on the side of larger y of the
\* line from p to q that runs east
Cross(p, q, r) ==
    DSub(DMul(DSub(q[1], p[1]), DSub(r[2], p[2])), DMul(DSub(q[2], p[2]), DSub(r[1], p[1])))

\* the corners of a ring in tile coordinates
TileRing(map_width, ring) ==
    [i \in 1 .. Len(ring) |-> coords_to_tile(ring[i][1], ring[i][2], map_width)]

\* every corner of the ring lies on one side of each of its edges
Convex(corners) ==
    \A i \in 1 .. Len(corners) - 1 :
       \/ \A k \in 1 .. Len(corners) :
             DLessEq(DInt(0), Cross(corners[i], corners[i + 1], corners[k]))
       \/ \A k \in 1 .. Len(corners) :
             DLessEq(Cross(corners[i], corners[i + 1], corners[k]), DInt(0))

\* a straight line along a side of the rectangle <<x1, y1, x2, y2>> or along
\* an edge of the convex ring has the rectangle on one side and the ring on
\* the other, so that they have no point in common
Separated(corners, box) ==
    \/ \A k \in 1 .. Len(corners) : DLess(corners[k][1], box[1])
    \/ \A k \in 1 .. Len(corners) : DLess(box[3], corners[k][1])
    \/ \A k \in 1 .. Len(corners) : DLess(corners[k][2], box[2])
    \/ \A k \in 1 .. Len(corners) : DLess(box[4], corners[k][2])
    \/ \E i \in 1 .. Len(corners) - 1 :
          LET Side(r) == Cross(corners[i], corners[i + 1], r)
              rectangle == {<<box[1], box[2]>>, <<box[1], box[4]>>,
                            <<box[3], box[2]>>, <<box[3], box[4]>>}
          IN \/ /\ \A k \in 1 .. Len(corners) : DLessEq(DInt(0), Side(corners[k]))
                /\ \A r \in rectangle : DLess(Side(r), DInt(0))
             \/ /\ \A k \in 1 .. Len(corners) : DLessEq(Side(corners[k]), DInt(0))
                /\ \A r \in rectangle : DLess(DInt(0), Side(r))

\* the square of the tile (x, y) widened by the leeway on every side
LeewaySquare(x, y) ==
    <<DSub(DInt(x), TILE_EXPIRY_LEEWAY), DSub(DInt(y), TILE_EXPIRY_LEEWAY),
      DAdd(DInt(x + 1), TILE_EXPIRY_LEEWAY), DAdd(DInt(y + 1), TILE_EXPIRY_LEEWAY)>>

\* the call is from_wkb_polygon of a polygon that is not evil
FillCall(e, c) ==
    /\ c.op = "from_wkb_polygon"
    /\ ~polygon_is_evil(e.max_bbox, c.args)

\* C24: every tile (x, y) with min <= y <= max for a pair (min, max) emitted
\* at column x lies inside the polygon or within the leeway of it; stated for
\* the polygons of one convex ring: the square of the tile, widened by the
\* leeway, has a point in common with the polygon
FillStaysNearPolygon ==
    (pc = "done" /\ FillCall(inst["et"], call) /\ Len(call.args) = 1
       /\ Convex(TileRing(inst["et"].map_width, call.args[1])))
       => LET tiles == sort_bounds(polygon_tiles(inst["et"].map_width, call.args))
              corners == TileRing(inst["et"].map_width, call.args[1])
          IN \A x \in TileColumns(tiles) :
                LET intervals == EmittedIntervals(tiles, x)
                IN \A k \in 1 .. Len(intervals) :
                      \A y \in intervals[k][1] .. intervals[k][2] :
                         ~Separated(corners, LeewaySquare(x, y))

\* C24, amended: every tile (x, y) with min <= y <= max for a pair (min, max)
\* emitted at column x lies in the bounding box of the outer ring widened by
\* the leeway: x is a column from floor(min_x - leeway) to
\* floor(max_x + leeway) and the rows are rows from floor(min_y - leeway) to
\* floor(max_y + leeway)
FillStaysInBoundingBox ==
    (pc = "done" /\ FillCall(inst["et"], call))
       => LET tiles == sort_bounds(polygon_tiles(inst["et"].map_width, call.args))
              box == polygon_tile_bbox(inst["et"].map_width, call.args)
              rows == OuterRows(inst["et"].map_width, call.args)
          IN /\ TileColumns(tiles) = Floor(DSub(box[1], TILE_EXPIRY_LEEWAY))
                                        .. Floor(DAdd(box[3], TILE_EXPIRY_LEEWAY))
             /\ \A x \in TileColumns(tiles) :
                   LET intervals == EmittedIntervals(tiles, x)
                   IN \A k \in 1 .. Len(intervals) :
                         rows[1] <= intervals[k][1] /\ intervals[k][2] <= rows[2]

\* a polygon of one convex ring has been filled, and a tile of an emitted
\* interval is farther than the leeway from it
FillStaysInBoundingBoxWitness ==
    /\ pc = "done"
    /\ FillCall(inst["et"], call)
    /\ Len(call.args) = 1
    /\ Convex(TileRing(inst["et"].map_width, call.args[1]))
    /\ LET tiles == sort_bounds(polygon_tiles(inst["et"].map_width, call.args))
           corners == TileRing(inst["et"].map_width, call.args[1])
       IN \E x \in TileColumns(tiles) :
             /\ EmittedIntervals(tiles, x) # << >>
             /\ \E y \in EmittedIntervals(tiles, x)[1][1] .. EmittedIntervals(tiles, x)[1][2] :
                   Separated(corners, LeewaySquare(x, y))
    /\ inst["et"].m_dirty_tiles # {}

----------------------------------------------------------------------------
(* Properties of the loop over the rings of from_wkb_polygon *)

\* a call of from_wkb_polygon that has reached the loop over the rings and
\* has not been ended by an exception
RingLoopCall ==
    /\ pc = "done"
    /\ call.op = "from_wkb_polygon"
    /\ ~call.read.evil
    /\ ~call.read.thrown

\* the rings whose edges evaluate_segment has taken
EvaluatedSegments == {call.read.segments[k] : k \in 1 .. Len(call.read.segments)}

\* C21: an outer ring of at most one point ends from_wkb_polygon with no
\* bound of any ring; an inner ring of at most three points adds no bound;
\* every other ring, also an outer ring of two or three points, has every
\* edge passed to evaluate_segment
DegenerateRingsAreSkipped ==
    RingLoopCall =>
       IF Len(call.args[1]) <= 1
       THEN call.read.returned /\ EvaluatedSegments = {}
       ELSE \A ring \in 1 .. Len(call.args) :
               IF ring >= 2 /\ Len(call.args[ring]) <= 3
               THEN \A i \in 1 .. Len(call.args[ring]) : <<ring, i>> \notin EvaluatedSegments
               ELSE \A i \in 1 .. Len(call.args[ring]) - 1 : <<ring, i>> \in EvaluatedSegments

\* the position of the number of points of a ring in the WKB of the polygon
RECURSIVE RingStart(_, _)
RingStart(rings, ring) ==
    IF ring = 1 THEN 2 ELSE RingStart(rings, ring - 1) + 1 + Len(rings[ring - 1])

\* C29: every read_length of the loop over the rings is at the start of a
\* ring, and from_wkb_polygon returns with the parser behind the last ring of
\* the polygon, for an evil polygon, for a degenerated outer ring and after
\* the loop over the rings
ParserIsBehindThePolygon ==
    (pc = "done" /\ call.op = "from_wkb_polygon" /\ ~call.read.thrown) =>
       /\ \A k \in 1 .. Len(call.read.lengths) :
             \E ring \in 1 .. Len(call.args) :
                call.read.lengths[k] = RingStart(call.args, ring)
       /\ ~call.read.misread
       /\ call.read.pos = call.read.items + 1

====
